---- MODULE Spec2Model ----
(***************************************************************************)
(* Lobby-and-session relay of superb-game (backend/app).                   *)
(*                                                                         *)
(* The server runs on one asyncio event loop: a task runs without          *)
(* interruption from one suspension (a socket send or receive, a sleep,    *)
(* the await of another task) to the next.  Every asyncio.Lock of the      *)
(* code is released before the holder suspends, so acquiring one never     *)
(* suspends.  An action of this module is therefore one such run of one    *)
(* task: it starts where the task was suspended and ends at its next       *)
(* suspension.  The state of a task between two runs is its pc and the     *)
(* local variables it still needs.                                         *)
(***************************************************************************)
EXTENDS Integers, Sequences, FiniteSets, TLC

VARIABLES
    lobby_module,       \* the module the LobbyManager of the run is defined in:
                        \* "lobby_manager" (what services/__init__.py exports) or
                        \* "managers"
    players,            \* LobbyManager.players: ordered dict, a sequence of player records
    queue,              \* LobbyManager.queue
    disconnect_tasks,   \* LobbyManager.disconnect_tasks: player id -> timer task
    ltask,              \* lobby endpoint handlers and _delayed_remove tasks
    minted,             \* number of player ids generated by uuid4 so far
    mf_log,             \* match_found payloads handed to a websocket, in order
    rebound,            \* per player id, the websocket the latest register_player
                        \* re-bound the existing player to (None for a new player)
    bare,               \* per watched table of LobbyManager (players, queue,
                        \* disconnect_tasks), whether a task has changed it outside
                        \* `async with self.lock`
    linbox,             \* per watched lobby websocket, the lobby_state payloads its
                        \* client has been sent (the player ids of each), in order
    joins_left,         \* join frames the clients may still send
    readies_left,       \* set_ready frames the clients may still send
    sessions,           \* every GameSession created, by session id (its index)
    cleanup_tasks,      \* GameManager.cleanup_tasks: session id -> timer task
    gtask,              \* game endpoint handlers and _delayed_cleanup tasks
    start_log,          \* per session, the number of `start` broadcasts
    ginbox,             \* per watched game websocket, the payloads its client has
                        \* been sent; forgotten when the client is gone
    frames_left         \* state_update / game_over frames the clients may still send

vars == <<lobby_module, players, queue, disconnect_tasks, ltask, minted, mf_log, rebound, linbox,
          bare, joins_left, readies_left, sessions, cleanup_tasks, gtask, start_log, ginbox, frames_left>>

(***************************************************************************)
(* Bounds of the model.                                                    *)
(***************************************************************************)
MaxJoin == 3            \* join frames over a run of Spec
MaxReady == 3           \* set_ready frames over a run of Spec
MaxFrames == 2          \* state_update / game_over frames over a run

None == "none"
Live == "live"

\* Player ids in the order uuid4 hands them out.
UuidPool == <<"p1", "p2">>
PlayerIds == {UuidPool[i] : i \in 1..Len(UuidPool)}

\* Lobby websockets; each has one endpoint handler, and the handler's
\* schedule_disconnect creates at most one _delayed_remove task.
LobbySocketSeq == <<"s1", "s2", "s3">>
TimerOf == ("s1" :> "t1") @@ ("s2" :> "t2") @@ ("s3" :> "t3")
LobbySockets == DOMAIN TimerOf
LobbyTimers == {TimerOf[s] : s \in LobbySockets}
LobbyTasks == LobbySockets \cup LobbyTimers

\* Game websockets; each has one endpoint handler, and the handler's
\* handle_disconnect creates at most one _delayed_cleanup task.
GameSocketSeq == <<"g1", "g2", "g3", "g4">>
CleanupOf == ("g1" :> "c1") @@ ("g2" :> "c2") @@ ("g3" :> "c3") @@ ("g4" :> "c4")
GameSockets == DOMAIN CleanupOf
CleanupTimers == {CleanupOf[g] : g \in GameSockets}
GameTasks == GameSockets \cup CleanupTimers

\* The state field of a state_update or game_over frame: "empty" is {}, which
\* is also what payload.get("state", {}) gives for a frame without the field.
StateInputs == {"empty", "x"}

\* The name field of a join frame, as a sequence of code units.
NameInputs == {<<" ">>, <<" ", "a">>}

MAX_NAME_LENGTH == 24

(***************************************************************************)
(* Ordered dict operations on players.                                     *)
(***************************************************************************)
HasPlayer(ps, id) == \E i \in 1..Len(ps) : ps[i].id = id

IdxOf(ps, id) == CHOOSE i \in 1..Len(ps) : ps[i].id = id

GetPlayer(ps, id) == ps[IdxOf(ps, id)]

PopPlayer(ps, id) == SelectSeq(ps, LAMBDA r : r.id # id)

InSeq(x, s) == \E i \in 1..Len(s) : s[i] = x

\* list.remove(x): drops the first occurrence.
ListRemove(s, x) ==
    IF ~InSeq(x, s) THEN s
    ELSE LET i == CHOOSE j \in 1..Len(s) : s[j] = x /\ \A h \in 1..(j - 1) : s[h] # x
         IN SubSeq(s, 1, i - 1) \o SubSeq(s, i + 1, Len(s))

SeqToSet(s) == {s[i] : i \in 1..Len(s)}

(***************************************************************************)
(* name.strip()[:MAX_NAME_LENGTH]                                          *)
(***************************************************************************)
RECURSIVE LStrip(_)
LStrip(s) == IF s # <<>> /\ Head(s) = " " THEN LStrip(Tail(s)) ELSE s

RECURSIVE RStrip(_)
RStrip(s) == IF s # <<>> /\ s[Len(s)] = " " THEN RStrip(SubSeq(s, 1, Len(s) - 1)) ELSE s

Strip(s) == RStrip(LStrip(s))

Sanitize(name) ==
    LET t == Strip(name)
    IN SubSeq(t, 1, IF Len(t) < MAX_NAME_LENGTH THEN Len(t) ELSE MAX_NAME_LENGTH)

\* str(uuid4()): the 36 code units of the id the model calls p1, p2, ...
\* (version 4, variant 8; the ids differ in their first code unit).
IdText(id) ==
    LET first == ("p1" :> "1") @@ ("p2" :> "2") @@ ("p3" :> "3") @@ ("p4" :> "4") @@ ("p5" :> "5")
    IN [i \in 1..36 |-> IF i = 1 THEN first[id]
                        ELSE IF i \in {9, 14, 19, 24} THEN "-"
                        ELSE IF i = 15 THEN "4"
                        ELSE IF i = 20 THEN "8"
                        ELSE "0"]

\* generated_id[:6], on the code units of the id.
IdPrefix(text) == SubSeq(text, 1, IF Len(text) < 6 THEN Len(text) ELSE 6)

(***************************************************************************)
(* Tasks.  A record per task: pc is where the task is suspended; the       *)
(* other fields are the local variables that live across suspensions.      *)
(*   peer     the client end of a handler's websocket: new, open, gone     *)
(*            (the client is gone, the handler has not seen it yet) or     *)
(*            closed (the handler has returned)                            *)
(*   pid      player_id of lobby_endpoint / of _delayed_remove             *)
(*   player   player.id of register_player while it awaits the cancelled  *)
(*            timer, before lobby_endpoint assigns player_id              *)
(*   cancel   Task.cancel() was called and not yet delivered               *)
(*   wait     the task this one awaits (`await task`)                      *)
(*   targets  broadcast_state: the sockets not yet sent to                 *)
(*   stale    broadcast_state: stale                                       *)
(*   payload  broadcast_state: the player ids of payload["players"]        *)
(*   again    try_matchmake of managers.py: `matches` for its second       *)
(*            `if matches:` block                                          *)
(*   cont     what follows the running broadcast_state                     *)
(*   matches  try_matchmake: matches not yet notified                      *)
(*   member   notify_match_found: 1 before the first send, 2 before the    *)
(*            second                                                       *)
(***************************************************************************)
IdleTask(pc, peer) ==
    [pc |-> pc, peer |-> peer, pid |-> None, cancel |-> FALSE, wait |-> None,
     targets |-> <<>>, stale |-> <<>>, cont |-> None, matches |-> <<>>, member |-> 1,
     payload |-> <<>>, again |-> <<>>, player |-> None]

\* The whole program state as one value, for the operators that run a task.
St ==
    [lobby_module |-> lobby_module, players |-> players, queue |-> queue, disconnect_tasks |-> disconnect_tasks,
     ltask |-> ltask, minted |-> minted, mf_log |-> mf_log, rebound |-> rebound,
     sessions |-> sessions, cleanup_tasks |-> cleanup_tasks, gtask |-> gtask,
     start_log |-> start_log, ginbox |-> ginbox, linbox |-> linbox,
     bare |-> bare]

\* The state S becomes the program's state (S is evaluated once).
Commit(S) ==
    \E T \in {S} :
        /\ players' = T.players
        /\ queue' = T.queue
        /\ disconnect_tasks' = T.disconnect_tasks
        /\ ltask' = T.ltask
        /\ minted' = T.minted
        /\ mf_log' = T.mf_log
        /\ rebound' = T.rebound
        /\ linbox' = T.linbox
        /\ bare' = T.bare
        /\ sessions' = T.sessions
        /\ cleanup_tasks' = T.cleanup_tasks
        /\ gtask' = T.gtask
        /\ start_log' = T.start_log
        /\ ginbox' = T.ginbox
        /\ UNCHANGED lobby_module

(***************************************************************************)
(* A match of try_matchmake holds references to two LobbyPlayer objects.   *)
(* Every mutation of a LobbyPlayer goes through a lookup in players, so    *)
(* an object popped from players keeps its fields for good: a reference    *)
(* is Live while the object is in players, and is replaced by the          *)
(* websocket the object holds when it is popped.                           *)
(***************************************************************************)
DetachRef(r, id, ws) == IF r.id = id /\ r.ws = Live THEN [r EXCEPT !.ws = ws] ELSE r

DetachMatches(ms, id, ws) ==
    [i \in 1..Len(ms) |-> [ms[i] EXCEPT !.a = DetachRef(@, id, ws),
                                        !.b = DetachRef(@, id, ws)]]

DetachAll(tasks, id, ws) ==
    [k \in DOMAIN tasks |->
        [tasks[k] EXCEPT !.matches = DetachMatches(@, id, ws),
                         !.again = DetachMatches(@, id, ws)]]

\* dict.pop(player_id, None) on players, keeping the references above right.
PopFromPlayers(S, id) ==
    IF ~HasPlayer(S.players, id) THEN S
    ELSE [S EXCEPT !.players = PopPlayer(@, id),
                   !.ltask = DetachAll(@, id, GetPlayer(S.players, id).ws)]

\* player.websocket of a referenced LobbyPlayer, read now.
RefSocket(S, r) == IF r.ws = Live THEN GetPlayer(S.players, r.id).ws ELSE r.ws

(***************************************************************************)
(* Task.cancel().  A task suspended in `await other` hands the request to  *)
(* the task it awaits and, as that task ends without raising, never sees   *)
(* it; when the awaited task has already finished it refuses the request,  *)
(* which then stays with the awaiting task until it resumes (and is        *)
(* suppressed there).  A finished task ignores the request.                *)
(***************************************************************************)
RECURSIVE CancelTask(_, _)
CancelTask(tasks, t) ==
    IF tasks[t].pc = "done" THEN tasks
    ELSE IF /\ tasks[t].pc \in {"evict_wait", "rm_wait"}
            /\ tasks[t].wait # t
            /\ tasks[tasks[t].wait].pc # "done"
         THEN CancelTask(tasks, tasks[t].wait)
         ELSE [tasks EXCEPT ![t].cancel = TRUE]

\* task.cancel(); with suppress(CancelledError): await task
\* Task k suspends at pc unless the task has already finished.
CancelAndAwait(S, k, t, pc) ==
    LET S1 == [S EXCEPT !.ltask = CancelTask(@, t)]
    IN [S1 EXCEPT !.ltask[k].pc = pc, !.ltask[k].wait = t]

AwaitDone(tasks, k) == tasks[k].wait = k \/ tasks[tasks[k].wait].pc = "done"

\* The await is over: the local `task` is dead.
Awaited(S, k) == [S EXCEPT !.ltask[k].wait = None, !.ltask[k].cancel = FALSE]

(***************************************************************************)
(* LobbyManager critical sections (the bodies of `async with self.lock`).  *)
(***************************************************************************)
\* register_player, lines 41-57.  The popped timer is left in
\* ltask[k].wait for the caller, and player.id in ltask[k].player.
RegisterPlayer(S, k, name, req) ==
    LET sanitized == Sanitize(name)
        known == req # None /\ HasPlayer(S.players, req)
        id == IF req # None THEN req ELSE UuidPool[S.minted + 1]
        i == IdxOf(S.players, id)
        S1 == IF known
              THEN [S EXCEPT !.players[i].name = IF sanitized # <<>> THEN sanitized ELSE @,
                             !.players[i].ws = k,
                             !.players[i].connected = TRUE]
              ELSE [S EXCEPT !.players = Append(@,
                                 [id |-> id,
                                  name |-> IF sanitized # <<>> THEN sanitized ELSE IdPrefix(IdText(id)),
                                  ws |-> k, connected |-> TRUE]),
                             !.minted = IF req = None THEN @ + 1 ELSE @]
    IN [S1 EXCEPT !.disconnect_tasks[id] = None,
                  !.rebound[id] = IF known THEN k ELSE None,
                  !.ltask[k].player = id,
                  !.ltask[k].wait = S.disconnect_tasks[id]]

\* remove_player, lines 66-71.
RemovePlayer(S, k, id) ==
    LET S1 == PopFromPlayers(S, id)
    IN [S1 EXCEPT !.queue = ListRemove(@, id),
                  !.disconnect_tasks[id] = None,
                  !.ltask[k].wait = S.disconnect_tasks[id]]

\* set_ready without the membership test of line 82.
SetReadyAgain(q, id, ready) == IF ready THEN Append(q, id) ELSE ListRemove(q, id)

\* set_ready that moves an already queued id to the end of the queue.
SetReadyRequeue(q, id, ready) ==
    IF ready THEN Append(ListRemove(q, id), id) ELSE ListRemove(q, id)

\* set_ready, lines 80-88.
SetReady(q, id, ready) ==
    IF ready
    THEN IF ~InSeq(id, q) THEN Append(q, id) ELSE q
    ELSE ListRemove(q, id)

\* snapshot, lines 101-105: the (pid, websocket) pairs of the live sockets.
SnapshotSockets(ps) ==
    LET live == SelectSeq(ps, LAMBDA r : r.ws # None)
    IN [i \in 1..Len(live) |-> [id |-> live[i].id, ws |-> live[i].ws]]

\* snapshot, lines 92-100, players_payload: the payload lists every player
\* of the table, with or without websocket.
PlayersPayload(ps) == [i \in 1..Len(ps) |-> ps[i].id]

\* schedule_disconnect, lines 144-162, called by the handler k.  create_task
\* queues the coroutine: the timer has not run yet.
ScheduleDisconnect(S, k, id) ==
    IF ~HasPlayer(S.players, id) THEN S
    ELSE LET i == IdxOf(S.players, id)
             S1 == [S EXCEPT !.players[i].connected = FALSE,
                             !.players[i].ws = None,
                             !.queue = ListRemove(@, id)]
         IN IF S1.disconnect_tasks[id] # None THEN S1
            ELSE [S1 EXCEPT !.disconnect_tasks[id] = TimerOf[k],
                            !.ltask[TimerOf[k]] =
                                [IdleTask("created", None) EXCEPT !.pid = id]]

\* _delayed_remove, lines 176-177: the pop of the finally clause, which is
\* not inside `async with self.lock`; it changes the table when the id has
\* an entry.
FinallyPop(S, id) ==
    [S EXCEPT !.disconnect_tasks[id] = None,
              !.bare = IF "disconnect_tasks" \in DOMAIN @ /\ S.disconnect_tasks[id] # None
                       THEN [@ EXCEPT !["disconnect_tasks"] = TRUE]
                       ELSE @]

\* _delayed_remove, lines 167-170.
ExpireRemove(S, id) ==
    IF HasPlayer(S.players, id) /\ ~GetPlayer(S.players, id).connected
    THEN PopFromPlayers(S, id)
    ELSE S

(***************************************************************************)
(* GameManager.create_session, lines 82-87.                                *)
(***************************************************************************)
\* A members dict keyed twice by the first player's id.
MembersDictFirst(one, two) == <<[id |-> one.id, name |-> two.name]>>

\* {player_one.id: player_one.name, player_two.id: player_two.name}
MembersDict(one, two) ==
    IF one.id = two.id THEN <<[id |-> two.id, name |-> two.name]>>
    ELSE <<[id |-> one.id, name |-> one.name], [id |-> two.id, name |-> two.name]>>

NewSession(one, two) ==
    [players |-> MembersDict(one, two), connections |-> <<>>,
     last_states |-> [p \in {one.id, two.id} |-> None],
     finished |-> FALSE, started |-> FALSE, inreg |-> TRUE]

CreateSession(S, one, two) ==
    [S EXCEPT !.sessions = Append(@, NewSession(one, two)),
              !.cleanup_tasks = Append(@, None),
              !.start_log = Append(@, 0)]

(***************************************************************************)
(* Runs of a lobby task k up to its next suspension.  Each operator takes  *)
(* the state and returns the state at the suspension.                      *)
(***************************************************************************)
RECURSIVE SendNext(_, _), EvictStale(_, _), Continue(_, _), NotifyNext(_, _)

\* A websocket send raises when the client end is gone or the socket closed.
SendRaises(S, ws) == S.ltask[ws].peer # "open"

\* broadcast_state, lines 109-111: snapshot, then the loop over the sockets.
BroadcastState(S, k, cont) ==
    SendNext([S EXCEPT !.ltask[k].targets = SnapshotSockets(S.players),
                       !.ltask[k].payload = PlayersPayload(S.players),
                       !.ltask[k].stale = <<>>,
                       !.ltask[k].cont = cont], k)

\* broadcast_state, lines 112-116: the next websocket.send_json, in which
\* the task suspends; after the last one, the evictions.
SendNext(S, k) ==
    LET t == S.ltask[k]
        ws == Head(t.targets).ws
    IN IF t.targets = <<>> THEN EvictStale([S EXCEPT !.ltask[k].payload = <<>>], k)
       ELSE IF SendRaises(S, ws)
            THEN [S EXCEPT !.ltask[k].targets = Tail(@),
                           !.ltask[k].stale = Append(@, Head(t.targets).id),
                           !.ltask[k].pc = "bcast"]
            ELSE [S EXCEPT !.ltask[k].targets = Tail(@),
                           !.ltask[k].pc = "bcast",
                           !.linbox = IF ws \in DOMAIN @
                                      THEN [@ EXCEPT ![ws] = Append(@, t.payload)]
                                      ELSE @]

\* broadcast_state, lines 117-119, and remove_player, lines 72-75.
EvictStale(S, k) ==
    LET t == S.ltask[k]
    IN IF t.stale = <<>> THEN Continue(S, k)
       ELSE LET S1 == RemovePlayer([S EXCEPT !.ltask[k].stale = Tail(@)], k, Head(t.stale))
                tm == S1.ltask[k].wait
            IN IF tm # None /\ S1.ltask[tm].pc # "done"
               THEN CancelAndAwait(S1, k, tm, "evict_wait")
               ELSE EvictStale(Awaited(S1, k), k)

\* The loop pairing the first eligible id with the last one.
RECURSIVE MatchLoopLast(_, _)
MatchLoopLast(S, k) ==
    LET ready_ids == SelectSeq(S.queue, LAMBDA id :
                         HasPlayer(S.players, id) /\ GetPlayer(S.players, id).connected)
    IN IF Len(ready_ids) < 2 THEN S
       ELSE LET first_id == ready_ids[1]
                second_id == ready_ids[Len(ready_ids)]
                S1 == [S EXCEPT !.queue = SelectSeq(@, LAMBDA id : id \notin {first_id, second_id})]
                S2 == CreateSession(S1, GetPlayer(S1.players, first_id),
                                        GetPlayer(S1.players, second_id))
            IN MatchLoopLast([S2 EXCEPT !.ltask[k].matches = Append(@,
                                  [sid |-> Len(S2.sessions),
                                   a |-> [id |-> first_id, ws |-> Live],
                                   b |-> [id |-> second_id, ws |-> Live]])], k)

\* try_matchmake, lines 123-137: the loop runs without suspending.
RECURSIVE MatchLoop(_, _)
MatchLoop(S, k) ==
    LET ready_ids == SelectSeq(S.queue, LAMBDA id :
                         HasPlayer(S.players, id) /\ GetPlayer(S.players, id).connected)
    IN IF Len(ready_ids) < 2 THEN S
       ELSE LET first_id == ready_ids[1]
                second_id == ready_ids[2]
                S1 == [S EXCEPT !.queue = SelectSeq(@, LAMBDA id : id \notin {first_id, second_id})]
            IN IF ~HasPlayer(S1.players, first_id) \/ ~HasPlayer(S1.players, second_id)
               THEN MatchLoop(S1, k)
               ELSE LET S2 == CreateSession(S1, GetPlayer(S1.players, first_id),
                                                GetPlayer(S1.players, second_id))
                    IN MatchLoop([S2 EXCEPT !.ltask[k].matches = Append(@,
                                      [sid |-> Len(S2.sessions),
                                       a |-> [id |-> first_id, ws |-> Live],
                                       b |-> [id |-> second_id, ws |-> Live]])], k)

\* try_matchmake, lines 122 and 138-139.  In managers.py (lines 129 and
\* 145-152) the block `if matches:` is there twice.
TryMatchmake(S, k) ==
    LET S1 == MatchLoop([S EXCEPT !.ltask[k].matches = <<>>, !.ltask[k].member = 1], k)
    IN IF S1.ltask[k].matches # <<>>
       THEN BroadcastState([S1 EXCEPT !.ltask[k].again =
                                IF S.lobby_module = "managers" THEN S1.ltask[k].matches
                                ELSE <<>>], k, "notify")
       ELSE [S1 EXCEPT !.ltask[k].pc = "recv", !.ltask[k].cont = None]

\* try_matchmake, lines 140-141, and notify_match_found, lines 118-119:
\* safe_send returns at once for a player without websocket, and suspends
\* in the send otherwise.
NotifyNext(S, k) ==
    LET t == S.ltask[k]
    IN IF t.matches = <<>>
       THEN IF t.again # <<>>
            THEN BroadcastState([S EXCEPT !.ltask[k].matches = t.again,
                                          !.ltask[k].again = <<>>], k, "notify")
            ELSE [S EXCEPT !.ltask[k].pc = "recv", !.ltask[k].cont = None]
       ELSE LET m == Head(t.matches)
                to == IF t.member = 1 THEN m.a ELSE m.b
                opp == IF t.member = 1 THEN m.b ELSE m.a
                ws == RefSocket(S, to)
                S1 == [S EXCEPT !.ltask[k].member = IF t.member = 1 THEN 2 ELSE 1,
                                !.ltask[k].matches = IF t.member = 1 THEN @ ELSE Tail(@)]
            IN IF ws = None THEN NotifyNext(S1, k)
               ELSE [S1 EXCEPT !.ltask[k].pc = "notify",
                               !.mf_log = Append(@, [sid |-> m.sid, to |-> to.id,
                                                     opponent |-> opp.id, ws |-> ws])]

\* What follows broadcast_state in the caller.
Continue(S, k) ==
    LET t == S.ltask[k]
    IN CASE t.cont = "recv" ->        \* lobby_endpoint, line 42: back to receive_json
              [S EXCEPT !.ltask[k].pc = "recv", !.ltask[k].cont = None]
         [] t.cont = "match" ->       \* lobby_endpoint, line 48
              TryMatchmake(S, k)
         [] t.cont = "notify" ->      \* try_matchmake, line 140
              NotifyNext(S, k)
         [] t.cont = "exit" ->        \* lobby_endpoint, lines 53-54 and 59: player_id is None
              [S EXCEPT !.ltask[k] = IdleTask("done", "closed")]
         [] t.cont = "finally" ->     \* _delayed_remove, lines 176-177
              [FinallyPop(S, t.pid) EXCEPT !.ltask[k] = IdleTask("done", None)]

(***************************************************************************)
(* Lobby actions.                                                          *)
(***************************************************************************)
\* lobby_endpoint, line 12: the socket is accepted and the loop waits.
\* Sockets are interchangeable: they connect in the order of LobbySocketSeq.
LConnect(s) ==
    /\ ltask[s].pc = "init"
    /\ \A i, j \in 1..Len(LobbySocketSeq) :
          i < j /\ LobbySocketSeq[j] = s => ltask[LobbySocketSeq[i]].pc # "init"
    /\ ltask' = [ltask EXCEPT ![s].pc = "recv", ![s].peer = "open"]
    /\ UNCHANGED <<lobby_module, players, queue, disconnect_tasks, minted, mf_log, rebound, linbox,
                   bare, joins_left, readies_left, sessions, cleanup_tasks, gtask, start_log, ginbox, frames_left>>

\* The ids a client can put in a join frame: those the server has issued.
KnownIds == {UuidPool[i] : i \in 1..minted}

Receiving(s) == ltask[s].pc = "recv" /\ ltask[s].peer = "open"

\* lobby_endpoint, lines 23-28: a join frame without name and playerId.
LJoinRejected(s, name) ==
    /\ Receiving(s)
    /\ joins_left > 0
    /\ Strip(name) = <<>>
    /\ ltask' = [ltask EXCEPT ![s].pc = "error"]
    /\ joins_left' = joins_left - 1
    /\ UNCHANGED <<lobby_module, players, queue, disconnect_tasks, minted, mf_log, rebound, linbox,
                   bare, readies_left, sessions, cleanup_tasks, gtask, start_log, ginbox, frames_left>>

\* lobby_endpoint, lines 31-40: register_player has returned, player_id is
\* assigned and `joined` is being sent.
Registered(S, s) ==
    [S EXCEPT !.ltask[s].pc = "joined", !.ltask[s].wait = None,
              !.ltask[s].pid = S.ltask[s].player, !.ltask[s].player = None]

\* lobby_endpoint, lines 23-40, and register_player, up to the first
\* suspension: the await of the cancelled timer, or the send of `joined`.
JoinRun(S, s, name, req) ==
    LET S1 == RegisterPlayer(S, s, Strip(name), req)
        tm == S1.ltask[s].wait
    IN IF tm # None /\ S1.ltask[tm].pc # "done"
       THEN CancelAndAwait(S1, s, tm, "reg_wait")
       ELSE Registered(S1, s)

LJoin(s, name, req) ==
    /\ Receiving(s)
    /\ joins_left > 0
    /\ Strip(name) # <<>> \/ req # None
    /\ req = None => minted < Len(UuidPool)
    /\ Commit(JoinRun(St, s, name, req))
    /\ joins_left' = joins_left - 1
    /\ UNCHANGED <<readies_left, frames_left>>

\* register_player, lines 62-63: the cancelled timer has ended.
LRegistered(s) ==
    /\ ltask[s].pc = "reg_wait"
    /\ AwaitDone(ltask, s)
    /\ Commit(Registered(St, s))
    /\ UNCHANGED <<joins_left, readies_left, frames_left>>

\* lobby_endpoint, line 42: `joined` is sent, broadcast_state starts.
LJoined(s) ==
    /\ ltask[s].pc = "joined"
    /\ Commit(BroadcastState(St, s, "recv"))
    /\ UNCHANGED <<joins_left, readies_left, frames_left>>

\* lobby_endpoint, line 28: the error reply is sent.
LErrorSent(s) ==
    /\ ltask[s].pc = "error"
    /\ ltask' = [ltask EXCEPT ![s].pc = "recv"]
    /\ UNCHANGED <<lobby_module, players, queue, disconnect_tasks, minted, mf_log, rebound, linbox,
                   bare, joins_left, readies_left, sessions, cleanup_tasks, gtask, start_log, ginbox, frames_left>>

\* lobby_endpoint, lines 44-48, up to the first send of broadcast_state.
SetReadyRun(S, s, ready) ==
    BroadcastState([S EXCEPT !.queue = SetReady(@, S.ltask[s].pid, ready)], s, "match")

LSetReady(s, ready) ==
    /\ Receiving(s)
    /\ ltask[s].pid # None
    /\ readies_left > 0
    /\ Commit(SetReadyRun(St, s, ready))
    /\ readies_left' = readies_left - 1
    /\ UNCHANGED <<joins_left, frames_left>>

\* lobby_endpoint, lines 50-52, and remove_player.
LeaveRun(S, s) ==
    LET S1 == RemovePlayer(S, s, S.ltask[s].pid)
        tm == S1.ltask[s].wait
    IN IF tm # None /\ S1.ltask[tm].pc # "done"
       THEN CancelAndAwait(S1, s, tm, "leave_wait")
       ELSE BroadcastState(Awaited(S1, s), s, "exit")

LLeave(s) ==
    /\ Receiving(s)
    /\ ltask[s].pid # None
    /\ Commit(LeaveRun(St, s))
    /\ UNCHANGED <<joins_left, readies_left, frames_left>>

\* remove_player, lines 74-75, of the leave: the cancelled timer has ended.
LLeft(s) ==
    /\ ltask[s].pc = "leave_wait"
    /\ AwaitDone(ltask, s)
    /\ Commit(BroadcastState(Awaited(St, s), s, "exit"))
    /\ UNCHANGED <<joins_left, readies_left, frames_left>>

\* The client end of a lobby socket goes away.
LPeerDrop(s) ==
    /\ ltask[s].peer = "open"
    /\ ltask' = [ltask EXCEPT ![s].peer = "gone"]
    /\ UNCHANGED <<lobby_module, players, queue, disconnect_tasks, minted, mf_log, rebound, linbox,
                   bare, joins_left, readies_left, sessions, cleanup_tasks, gtask, start_log, ginbox, frames_left>>

\* lobby_endpoint, lines 56-60: receive_json raises WebSocketDisconnect.
DisconnectRun(S, s) ==
    LET S1 == IF S.ltask[s].pid # None THEN ScheduleDisconnect(S, s, S.ltask[s].pid) ELSE S
    IN [S1 EXCEPT !.ltask[s] = IdleTask("done", "closed")]

LDisconnect(s) ==
    /\ ltask[s].pc = "recv"
    /\ ltask[s].peer = "gone"
    /\ Commit(DisconnectRun(St, s))
    /\ UNCHANGED <<joins_left, readies_left, frames_left>>

\* A send of broadcast_state has returned: the next one, or what follows.
LBroadcastNext(k) ==
    /\ ltask[k].pc = "bcast"
    /\ ~ltask[k].cancel
    /\ Commit(SendNext(St, k))
    /\ UNCHANGED <<joins_left, readies_left, frames_left>>

\* remove_player, lines 74-75, of an eviction: the awaited timer has ended
\* (a cancellation of k that arrived meanwhile is lost in the await).
LEvicted(k) ==
    /\ ltask[k].pc = "evict_wait"
    /\ AwaitDone(ltask, k)
    /\ Commit(EvictStale(Awaited(St, k), k))
    /\ UNCHANGED <<joins_left, readies_left, frames_left>>

\* A send of notify_match_found has returned.
LNotified(s) ==
    /\ ltask[s].pc = "notify"
    /\ Commit(NotifyNext(St, s))
    /\ UNCHANGED <<joins_left, readies_left, frames_left>>

\* _delayed_remove, lines 164-166: the first step of the task enters the try
\* and suspends in the sleep.
TimerStart(t) ==
    /\ ltask[t].pc = "created"
    /\ ~ltask[t].cancel
    /\ ltask' = [ltask EXCEPT ![t].pc = "sleep"]
    /\ UNCHANGED <<lobby_module, players, queue, disconnect_tasks, minted, mf_log, rebound, linbox,
                   bare, joins_left, readies_left, sessions, cleanup_tasks, gtask, start_log, ginbox, frames_left>>

\* _delayed_remove, lines 166-173: the sleep is over.
ExpireRun(S, t) == BroadcastState(ExpireRemove(S, S.ltask[t].pid), t, "finally")

TimerExpire(t) ==
    /\ ltask[t].pc = "sleep"
    /\ ~ltask[t].cancel
    /\ Commit(ExpireRun(St, t))
    /\ UNCHANGED <<joins_left, readies_left, frames_left>>

\* _delayed_remove, lines 174-177: CancelledError is raised in the sleep or
\* in a send of broadcast_state.  A task cancelled before its first step
\* ends without entering the try: its finally does not run.
CancelledRun(S, t) ==
    IF S.ltask[t].pc = "created"
    THEN [S EXCEPT !.ltask[t] = IdleTask("done", None)]
    ELSE [FinallyPop(S, S.ltask[t].pid) EXCEPT !.ltask[t] = IdleTask("done", None)]

TimerCancelled(t) ==
    /\ ltask[t].pc \in {"created", "sleep", "bcast"}
    /\ ltask[t].cancel
    /\ Commit(CancelledRun(St, t))
    /\ UNCHANGED <<joins_left, readies_left, frames_left>>

\* The lobby after construction, with the sockets of `socks` still to come.
InitLobby(socks) ==
    /\ lobby_module = "lobby_manager"
    /\ players = <<>>
    /\ queue = <<>>
    /\ disconnect_tasks = [p \in PlayerIds |-> None]
    /\ ltask = [k \in LobbyTasks |->
                   IF k \in socks THEN IdleTask("init", "new")
                   ELSE IF k \in LobbySockets THEN IdleTask("done", "closed")
                   ELSE IdleTask("unborn", None)]
    /\ minted = 0
    /\ mf_log = <<>>
    /\ rebound = [p \in PlayerIds |-> None]
    /\ linbox = <<>>
    /\ bare = <<>>

InitGameEmpty ==
    /\ sessions = <<>>
    /\ cleanup_tasks = <<>>
    /\ gtask = <<>>
    /\ start_log = <<>>
    /\ ginbox = <<>>
    /\ frames_left = 0

\* Two lobby clients.
PairSockets == {"s1", "s2"}

Init ==
    /\ InitLobby(PairSockets)
    /\ joins_left = MaxJoin
    /\ readies_left = MaxReady
    /\ InitGameEmpty

NextLobby ==
    \/ \E s \in LobbySockets : LConnect(s)
    \/ \E s \in LobbySockets, name \in NameInputs : LJoinRejected(s, name)
    \/ \E s \in LobbySockets, name \in NameInputs, req \in KnownIds \cup {None} :
          LJoin(s, name, req)
    \/ \E s \in LobbySockets : LRegistered(s)
    \/ \E s \in LobbySockets : LJoined(s)
    \/ \E s \in LobbySockets : LErrorSent(s)
    \/ \E s \in LobbySockets, ready \in BOOLEAN : LSetReady(s, ready)
    \/ \E s \in LobbySockets : LLeave(s)
    \/ \E s \in LobbySockets : LLeft(s)
    \/ \E s \in LobbySockets : LPeerDrop(s)
    \/ \E s \in LobbySockets : LDisconnect(s)
    \/ \E k \in LobbyTasks : LBroadcastNext(k)
    \/ \E k \in LobbyTasks : LEvicted(k)
    \/ \E s \in LobbySockets : LNotified(s)
    \/ \E t \in LobbyTimers : TimerStart(t)
    \/ \E t \in LobbyTimers : TimerExpire(t)
    \/ \E t \in LobbyTimers : TimerCancelled(t)

Spec == Init /\ [][NextLobby]_vars

(***************************************************************************)
(* Three lobby clients that join, drop and come back; nobody gets ready.   *)
(***************************************************************************)
MaxRejoin == 3          \* join frames over a run of SpecRejoin

InitRejoin ==
    /\ InitLobby(LobbySockets)
    /\ joins_left = MaxRejoin
    /\ readies_left = 0
    /\ InitGameEmpty

NextRejoin ==
    \/ \E s \in LobbySockets : LConnect(s)
    \/ \E s \in LobbySockets, name \in NameInputs, req \in KnownIds \cup {None} :
          LJoin(s, name, req)
    \/ \E s \in LobbySockets : LRegistered(s)
    \/ \E s \in LobbySockets : LJoined(s)
    \/ \E s \in LobbySockets : LPeerDrop(s)
    \/ \E s \in LobbySockets : LDisconnect(s)
    \/ \E k \in LobbyTasks : LBroadcastNext(k)
    \/ \E k \in LobbyTasks : LEvicted(k)
    \/ \E t \in LobbyTimers : TimerStart(t)
    \/ \E t \in LobbyTimers : TimerExpire(t)
    \/ \E t \in LobbyTimers : TimerCancelled(t)

SpecRejoin == InitRejoin /\ [][NextRejoin]_vars

(***************************************************************************)
(* One lobby client that has joined several times, each time as another    *)
(* player (a join frame may carry any playerId), so that every connected   *)
(* player is bound to its socket.  A second socket may have joined as one  *)
(* of the players and gone away: schedule_disconnect has marked that       *)
(* player disconnected and created its timer, which has not taken its      *)
(* first step yet.  The ready queue may hold any of the ids.  The client   *)
(* sends one set_ready frame, which ends in try_matchmake, while the timer *)
(* runs.                                                                   *)
(***************************************************************************)
MatchPool == <<"p1", "p2", "p3", "p4", "p5">>
MatchIds == {MatchPool[i] : i \in 1..Len(MatchPool)}

\* The lists without duplicates over a set of ids.
DistinctSeqs(ids) ==
    {q \in UNION {[1..n -> ids] : n \in 0..Cardinality(ids)} :
        \A i, j \in DOMAIN q : i # j => q[i] # q[j]}

PlayerRecord(id, connected) ==
    [id |-> id, name |-> <<"a">>, ws |-> IF connected THEN "s1" ELSE None,
     connected |-> connected]

\* The sockets that left a player behind before the frame.
GoneSockets == {"s2"}

\* schedule_disconnect, lines 148-162, as the handler of owner[p] left the
\* player p: the disconnected players are those with a timer.
InitMatchWith(module, watched) ==
    /\ lobby_module = module
    /\ \E st \in [MatchIds -> {"connected", "disconnected", "absent"}],
          owner \in [MatchIds -> GoneSockets \cup {None}] :
          /\ st["p1"] = "connected"
          /\ \A p \in {"p2", "p3", "p4"} : st[p] # "absent"
          /\ st["p5"] # "disconnected"
          /\ \A p \in MatchIds : owner[p] # None <=> st[p] = "disconnected"
          /\ \A p, q \in MatchIds : owner[p] # None /\ owner[p] = owner[q] => p = q
          /\ players = SelectSeq([i \in 1..Len(MatchPool) |->
                                     PlayerRecord(MatchPool[i], st[MatchPool[i]] = "connected")],
                                 LAMBDA r : st[r.id] # "absent")
          /\ disconnect_tasks = [p \in MatchIds |->
                                    IF owner[p] = None THEN None ELSE TimerOf[owner[p]]]
          /\ ltask = [k \in LobbyTasks |->
                         IF k = "s1" THEN [IdleTask("recv", "open") EXCEPT !.pid = "p1"]
                         ELSE IF k \in LobbySockets THEN IdleTask("done", "closed")
                         ELSE IF \E p \in MatchIds : owner[p] # None /\ TimerOf[owner[p]] = k
                              THEN [IdleTask("created", None) EXCEPT
                                       !.pid = CHOOSE p \in MatchIds :
                                                  owner[p] # None /\ TimerOf[owner[p]] = k]
                              ELSE IdleTask("unborn", None)]
    /\ queue \in DistinctSeqs(MatchIds)
    /\ minted = 0
    /\ mf_log = <<>>
    /\ rebound = [p \in MatchIds |-> None]
    /\ linbox = [s \in watched |-> <<>>]
    /\ bare = <<>>
    /\ joins_left = 0
    /\ readies_left = 1
    /\ InitGameEmpty

InitMatch == InitMatchWith("lobby_manager", {})

NextMatch ==
    \/ \E s \in LobbySockets, ready \in BOOLEAN : LSetReady(s, ready)
    \/ \E k \in LobbyTasks : LBroadcastNext(k)
    \/ \E s \in LobbySockets : LNotified(s)
    \/ \E t \in LobbyTimers : TimerStart(t)
    \/ \E t \in LobbyTimers : TimerExpire(t)

SpecMatch == InitMatch /\ [][NextMatch]_vars

\* The same client and frame, served by the LobbyManager of either module;
\* the lobby_state payloads sent to the client are recorded.
LobbyModules == {"lobby_manager", "managers"}

InitEither == \E module \in LobbyModules : InitMatchWith(module, {"s1"})

SpecEither == InitEither /\ [][NextMatch]_vars

(***************************************************************************)
(* Three players who have joined, each on its own socket and waiting in    *)
(* receive_json, the third one ready.  No client sends a join frame any    *)
(* more: they send set_ready frames, the client of the first socket may    *)
(* go away, and the server's tasks are scheduled fairly.  The lobby_state  *)
(* payloads sent to every socket are recorded.                             *)
(***************************************************************************)
MaxDropReady == 1       \* set_ready frames over a run of SpecDrop

DropPool == <<"p1", "p2", "p3">>
DropIds == {DropPool[i] : i \in 1..Len(DropPool)}

\* The tables the lobby mutex guards.
LobbyTables == {"players", "queue", "disconnect_tasks"}

\* The sockets whose client may go away.
Leavers == {"s1"}

InitDrop ==
    /\ lobby_module = "lobby_manager"
    /\ players = [i \in 1..Len(DropPool) |->
                     [id |-> DropPool[i], name |-> <<"a">>, ws |-> LobbySocketSeq[i],
                      connected |-> TRUE]]
    /\ queue = <<DropPool[Len(DropPool)]>>
    /\ disconnect_tasks = [p \in DropIds |-> None]
    /\ ltask = [k \in LobbyTasks |->
                   IF k \in LobbySockets
                   THEN [IdleTask("recv", "open") EXCEPT
                            !.pid = DropPool[CHOOSE i \in 1..Len(DropPool) : LobbySocketSeq[i] = k]]
                   ELSE IdleTask("unborn", None)]
    /\ minted = Len(DropPool)
    /\ mf_log = <<>>
    /\ rebound = [p \in DropIds |-> None]
    /\ linbox = [s \in LobbySockets |-> <<>>]
    /\ bare = [table \in LobbyTables |-> FALSE]
    /\ joins_left = 0
    /\ readies_left = MaxDropReady
    /\ InitGameEmpty

NextDrop ==
    \/ \E s \in LobbySockets, ready \in BOOLEAN : LSetReady(s, ready)
    \/ \E s \in Leavers : LPeerDrop(s)
    \/ \E s \in Leavers : LDisconnect(s)
    \/ \E k \in LobbyTasks : LBroadcastNext(k)
    \/ \E k \in LobbyTasks : LEvicted(k)
    \/ \E s \in LobbySockets : LNotified(s)
    \/ \E s \in Leavers : TimerStart(TimerOf[s])
    \/ \E s \in Leavers : TimerExpire(TimerOf[s])
    \/ \E s \in Leavers : TimerCancelled(TimerOf[s])

\* The event loop runs every task that is ready to run.
FairDrop ==
    /\ \A s \in LobbySockets : WF_vars(LBroadcastNext(s)) /\ WF_vars(LEvicted(s))
                                 /\ WF_vars(LNotified(s))
    /\ \A s \in Leavers : /\ WF_vars(LDisconnect(s))
                          /\ WF_vars(TimerStart(TimerOf[s]))
                          /\ WF_vars(TimerExpire(TimerOf[s]))
                          /\ WF_vars(TimerCancelled(TimerOf[s]))
                          /\ WF_vars(LBroadcastNext(TimerOf[s]))
                          /\ WF_vars(LEvicted(TimerOf[s]))

SpecDrop == InitDrop /\ [][NextDrop]_vars /\ FairDrop

(***************************************************************************)
(* Game sessions.  A game task record:                                     *)
(*   sid, pid  game_id and player_id of game_endpoint; the session id of   *)
(*             _delayed_cleanup                                            *)
(*   code      the close code the server sent, 0 if none                   *)
(*   targets   the websockets a payload is still to be sent to, the one    *)
(*             of the send in progress first                               *)
(*   msg       that payload                                                *)
(*   cont      what follows these sends                                    *)
(***************************************************************************)
Msg(type, from, state) == [type |-> type, playerId |-> from, state |-> state]

NoMsg == Msg(None, None, None)

IdleGame(pc, peer) ==
    [pc |-> pc, peer |-> peer, pid |-> None, sid |-> 0, code |-> 0, cancel |-> FALSE,
     wait |-> None, targets |-> <<>>, msg |-> NoMsg, cont |-> None]

\* A session record of sessions[sid]; inreg says whether GameManager.sessions
\* still holds it (handlers keep the object after remove_session).
InRegistry(S, sid) == sid \in 1..Len(S.sessions) /\ S.sessions[sid].inreg

MemberIds(sess) == {sess.players[i].id : i \in 1..Len(sess.players)}

HasConn(conns, id) == \E i \in 1..Len(conns) : conns[i].id = id

\* opponent_for, lines 27-31: the first member that is not player_id.
OpponentFor(sess, id) ==
    LET others == SelectSeq(sess.players, LAMBDA r : r.id # id)
    IN IF others = <<>> THEN None ELSE others[1].id

\* add_connection, line 35: connections[player_id] = websocket.
AddConnection(conns, id, ws) ==
    IF HasConn(conns, id)
    THEN [i \in 1..Len(conns) |-> IF conns[i].id = id THEN [id |-> id, ws |-> ws] ELSE conns[i]]
    ELSE Append(conns, [id |-> id, ws |-> ws])

\* remove_connection, line 40: connections.pop(player_id, None).
RemoveConnection(conns, id) == SelectSeq(conns, LAMBDA r : r.id # id)

\* broadcast, line 46: the websockets of everyone but exclude.
BroadcastTargets(conns, exclude) ==
    LET sel == SelectSeq(conns, LAMBDA r : r.id # exclude)
    IN [i \in 1..Len(sel) |-> sel[i].ws]

\* A lookup of the sender's own connection.
OwnSocket(sess, sender) ==
    LET sel == SelectSeq(sess.connections, LAMBDA r : r.id = sender)
    IN IF sel = <<>> THEN None ELSE sel[1].ws

\* connections.get(opponent_id) of send_to_opponent, lines 51-56.
OpponentSocket(sess, sender) ==
    LET opp == OpponentFor(sess, sender)
        sel == SelectSeq(sess.connections, LAMBDA r : r.id = opp)
    IN IF opp = None \/ sel = <<>> THEN None ELSE sel[1].ws

\* `if own_state:` - an empty dict is falsy.
Truthy(state) == state # None /\ state # "empty"

\* Task.cancel() followed by the suppressed await, for a game task.
GCancelAndAwait(S, k, t, pc) ==
    LET S1 == [S EXCEPT !.gtask = CancelTask(@, t)]
    IN [S1 EXCEPT !.gtask[k].pc = pc, !.gtask[k].wait = t]

\* The endpoint function has returned.
Closed(S, k) ==
    [S EXCEPT !.gtask[k] = IdleGame("done", "closed"),
              !.ginbox = [g \in DOMAIN @ |-> IF g = k THEN <<>> ELSE @[g]]]

RECURSIVE GSendNext(_, _), GContinue(_, _)

\* safe_send: the payload reaches the client if its end is still there;
\* the task suspends in the send.
Deliver(S, ws, m) ==
    IF ws \in DOMAIN S.ginbox /\ S.gtask[ws].peer = "open"
    THEN [S EXCEPT !.ginbox[ws] = Append(@, m)]
    ELSE S

GSendNext(S, k) ==
    LET t == S.gtask[k]
    IN IF t.targets = <<>> THEN GContinue(S, k)
       ELSE [Deliver(S, Head(t.targets), t.msg) EXCEPT !.gtask[k].pc = "send"]

SendTo(S, k, targets, m, cont) ==
    GSendNext([S EXCEPT !.gtask[k].targets = targets, !.gtask[k].msg = m,
                        !.gtask[k].cont = cont], k)

\* A schedule_cleanup that arms no timer for a finished session.
ScheduleCleanupUnfinished(S, k, sid) ==
    IF S.cleanup_tasks[sid] # None \/ S.sessions[sid].finished THEN S
    ELSE [S EXCEPT !.cleanup_tasks[sid] = CleanupOf[k],
                   !.gtask[CleanupOf[k]] = [IdleGame("created", None) EXCEPT !.sid = sid]]

\* schedule_cleanup, lines 154-158, called by the handler k.  create_task
\* queues the coroutine: the timer has not run yet.
ScheduleCleanup(S, k, sid) ==
    IF S.cleanup_tasks[sid] # None THEN S
    ELSE [S EXCEPT !.cleanup_tasks[sid] = CleanupOf[k],
                   !.gtask[CleanupOf[k]] = [IdleGame("created", None) EXCEPT !.sid = sid]]

\* The count check without the test of session.started.
StartAlways(S, k) ==
    LET t == S.gtask[k]
        sess == S.sessions[t.sid]
    IN IF Len(sess.connections) = Len(sess.players)
       THEN SendTo([S EXCEPT !.sessions[t.sid].started = TRUE, !.start_log[t.sid] = @ + 1],
                   k, BroadcastTargets(sess.connections, None),
                   Msg("start", None, None), "own_state")
       ELSE GContinue([S EXCEPT !.gtask[k].cont = "own_state"], k)

\* game_endpoint, lines 36-43: the connected count decides on `start`.
StartOrReturn(S, k) ==
    LET t == S.gtask[k]
        sess == S.sessions[t.sid]
    IN IF Len(sess.connections) = Len(sess.players)
       THEN IF ~sess.started
            THEN SendTo([S EXCEPT !.sessions[t.sid].started = TRUE,
                                  !.start_log[t.sid] = @ + 1],
                        k, BroadcastTargets(sess.connections, None),
                        Msg("start", None, None), "own_state")
            ELSE SendTo(S, k, BroadcastTargets(sess.connections, t.pid),
                        Msg("opponent_returned", t.pid, None), "private_start")
       ELSE GContinue([S EXCEPT !.gtask[k].cont = "own_state"], k)

GContinue(S, k) ==
    LET t == S.gtask[k]
        sess == S.sessions[t.sid]
        opp == OpponentFor(sess, t.pid)
    IN CASE t.cont = "count" ->          \* game_endpoint, line 36
              StartOrReturn(S, k)
         [] t.cont = "private_start" ->  \* game_endpoint, line 43
              SendTo(S, k, <<k>>, Msg("start", None, None), "own_state")
         [] t.cont = "own_state" ->      \* game_endpoint, lines 45-47
              IF Truthy(sess.last_states[t.pid])
              THEN SendTo(S, k, <<k>>, Msg("resume_state", None, sess.last_states[t.pid]),
                          "opp_state")
              ELSE GContinue([S EXCEPT !.gtask[k].cont = "opp_state"], k)
         [] t.cont = "opp_state" ->      \* game_endpoint, lines 49-59
              IF opp # None /\ Truthy(sess.last_states[opp])
              THEN SendTo(S, k, <<k>>, Msg("opponent_state", opp, sess.last_states[opp]),
                          "recv")
              ELSE GContinue([S EXCEPT !.gtask[k].cont = "recv"], k)
         [] t.cont = "recv" ->           \* game_endpoint, line 63
              [S EXCEPT !.gtask[k].pc = "recv", !.gtask[k].cont = None,
                        !.gtask[k].msg = NoMsg]
         [] t.cont = "count_zero" ->     \* handle_disconnect, lines 149-150
              LET S1 == IF Len(sess.connections) = 0 THEN ScheduleCleanup(S, k, t.sid) ELSE S
              IN Closed(S1, k)

\* game_endpoint, lines 23-34: add_connection, cancel_cleanup, `connected`.
SendConnected(S, k) ==
    LET t == S.gtask[k]
    IN SendTo(S, k, <<k>>, Msg("connected", t.pid, None), "count")

AcceptedRun(S, k) ==
    LET t == S.gtask[k]
        S1 == [S EXCEPT !.sessions[t.sid].connections = AddConnection(@, t.pid, k),
                        !.cleanup_tasks[t.sid] = None]
        tm == S.cleanup_tasks[t.sid]
    IN IF tm # None /\ S1.gtask[tm].pc # "done"
       THEN GCancelAndAwait(S1, k, tm, "cancel_wait")
       ELSE SendConnected(S1, k)

\* A forward that records the state only when there is nobody to relay it to.
ForwardRunUnrecorded(S, k, type, state, finish) ==
    LET t == S.gtask[k]
    IN IF ~InRegistry(S, t.sid) THEN S
       ELSE LET ws == OpponentSocket(S.sessions[t.sid], t.pid)
                S1 == [S EXCEPT !.sessions[t.sid].last_states[t.pid] =
                                    IF ws = None THEN state ELSE @,
                                !.sessions[t.sid].finished = IF finish THEN TRUE ELSE @]
            IN IF ws = None THEN S1
               ELSE SendTo(S1, k, <<ws>>, Msg(type, t.pid, state), "recv")

\* record_state and send_to_opponent of forward_state, lines 123-127, and of
\* forward_game_over, lines 131-140.
ForwardRun(S, k, type, state, finish) ==
    LET t == S.gtask[k]
    IN IF ~InRegistry(S, t.sid) THEN S
       ELSE LET S1 == [S EXCEPT !.sessions[t.sid].last_states[t.pid] = state,
                                !.sessions[t.sid].finished = IF finish THEN TRUE ELSE @]
                ws == OpponentSocket(S1.sessions[t.sid], t.pid)
            IN IF ws = None THEN S1
               ELSE SendTo(S1, k, <<ws>>, Msg(type, t.pid, state), "recv")

\* handle_disconnect, lines 143-147.
HandleDisconnect(S, k) ==
    LET t == S.gtask[k]
    IN IF ~InRegistry(S, t.sid) THEN Closed(S, k)
       ELSE LET S1 == [S EXCEPT !.sessions[t.sid].connections = RemoveConnection(@, t.pid)]
            IN SendTo(S1, k, BroadcastTargets(S1.sessions[t.sid].connections, t.pid),
                      Msg("opponent_left", t.pid, None), "count_zero")

\* remove_session, lines 101-104, and _delayed_cleanup, line 182.
ClearAndFinish(S, c) ==
    LET sid == S.gtask[c].sid
    IN [S EXCEPT !.sessions[sid].connections = <<>>,
                 !.sessions[sid].last_states = [p \in DOMAIN @ |-> None],
                 !.cleanup_tasks[sid] = None,
                 !.gtask[c] = IdleGame("done", None)]

\* The test of line 174 without the connection count.
ShouldRemoveFinished(sess) == sess.finished

\* The test of line 174 without `or session.finished`.
ShouldRemoveEmpty(sess) == Len(sess.connections) = 0

\* _delayed_cleanup, lines 171-182, and remove_session, lines 94-100.
ShouldRemove(sess) == Len(sess.connections) = 0 \/ sess.finished

CleanupRun(S, c) ==
    LET sid == S.gtask[c].sid
        tm == S.cleanup_tasks[sid]
    IN IF ~InRegistry(S, sid)
       THEN [S EXCEPT !.cleanup_tasks[sid] = None, !.gtask[c] = IdleGame("done", None)]
       ELSE IF ~ShouldRemove(S.sessions[sid])
       THEN [S EXCEPT !.cleanup_tasks[sid] = None,     \* logs "cleanup skipped"
                      !.gtask[c] = [IdleGame("done", None) EXCEPT !.cont = "skipped"]]
       ELSE LET S1 == [S EXCEPT !.sessions[sid].inreg = FALSE,
                                !.cleanup_tasks[sid] = None]
            IN IF tm # None /\ S1.gtask[tm].pc # "done"
               THEN GCancelAndAwait(S1, c, tm, "rm_wait")
               ELSE ClearAndFinish(S1, c)

(***************************************************************************)
(* Game actions.                                                           *)
(***************************************************************************)
LobbyUnchanged ==
    UNCHANGED <<lobby_module, players, queue, disconnect_tasks, ltask, minted, mf_log, rebound, linbox,
                bare, joins_left, readies_left>>

CommitGame(S) ==
    \E T \in {S} :
        /\ sessions' = T.sessions
        /\ cleanup_tasks' = T.cleanup_tasks
        /\ gtask' = T.gtask
        /\ start_log' = T.start_log
        /\ ginbox' = T.ginbox
        /\ LobbyUnchanged

\* A request with a game id and a playerId query parameter.  Sockets are
\* interchangeable: they arrive in the order of GameSocketSeq.
Arrives(g) ==
    /\ gtask[g].pc = "init"
    /\ \A i, j \in 1..Len(GameSocketSeq) :
          i < j /\ GameSocketSeq[j] = g => gtask[GameSocketSeq[i]].pc # "init"

\* The checks of lines 12-19 without the membership test.
RejectsUnknown(S, sid, pid) == pid = None \/ ~InRegistry(S, sid)

\* game_endpoint, lines 10-19: closed with 1008 before being accepted.
Rejects(S, sid, pid) ==
    IF pid = None \/ ~InRegistry(S, sid) THEN TRUE
    ELSE pid \notin MemberIds(S.sessions[sid])

\* A refusal that drops the pending cleanup entries on its way.
GRejectCancelling(g, sid, pid) ==
    /\ Arrives(g)
    /\ Rejects(St, sid, pid)
    /\ gtask' = [gtask EXCEPT ![g] = [IdleGame("done", "closed") EXCEPT !.code = 1008]]
    /\ cleanup_tasks' = [i \in DOMAIN cleanup_tasks |-> None]
    /\ UNCHANGED <<sessions, start_log, ginbox, frames_left>>
    /\ LobbyUnchanged

GReject(g, sid, pid) ==
    /\ Arrives(g)
    /\ Rejects(St, sid, pid)
    /\ gtask' = [gtask EXCEPT ![g] = [IdleGame("done", "closed") EXCEPT !.code = 1008]]
    /\ UNCHANGED <<sessions, cleanup_tasks, start_log, ginbox, frames_left>>
    /\ LobbyUnchanged

\* game_endpoint, lines 17-21: the checks pass, the task suspends in accept.
GConnect(g, sid, pid) ==
    /\ Arrives(g)
    /\ ~Rejects(St, sid, pid)
    /\ gtask' = [gtask EXCEPT ![g].pc = "accept", ![g].peer = "open",
                              ![g].sid = sid, ![g].pid = pid]
    /\ UNCHANGED <<sessions, cleanup_tasks, start_log, ginbox, frames_left>>
    /\ LobbyUnchanged

\* game_endpoint, lines 22-34.
GAccepted(g) ==
    /\ gtask[g].pc = "accept"
    /\ CommitGame(AcceptedRun(St, g))
    /\ UNCHANGED frames_left

\* cancel_cleanup, lines 164-166: the cancelled timer has ended.
GCleanupCancelled(g) ==
    /\ gtask[g].pc = "cancel_wait"
    /\ gtask[gtask[g].wait].pc = "done"
    /\ CommitGame(SendConnected([St EXCEPT !.gtask[g].wait = None], g))
    /\ UNCHANGED frames_left

\* A send has returned: the next one, or what follows.
GSent(g) ==
    /\ gtask[g].pc = "send"
    /\ CommitGame(GSendNext([St EXCEPT !.gtask[g].targets = Tail(@)], g))
    /\ UNCHANGED frames_left

GReceiving(g) == gtask[g].pc = "recv" /\ gtask[g].peer = "open"

\* game_endpoint, lines 66-68: a state_update frame.
GStateUpdate(g, state) ==
    /\ GReceiving(g)
    /\ frames_left > 0
    /\ CommitGame(ForwardRun(St, g, "opponent_state", state, FALSE))
    /\ frames_left' = frames_left - 1

\* game_endpoint, lines 69-71: a game_over frame.
GGameOver(g, state) ==
    /\ GReceiving(g)
    /\ frames_left > 0
    /\ CommitGame(ForwardRun(St, g, "opponent_game_over", state, TRUE))
    /\ frames_left' = frames_left - 1

\* game_endpoint, lines 72-78: a leave frame ends the loop.
GLeave(g) ==
    /\ GReceiving(g)
    /\ CommitGame(HandleDisconnect(St, g))
    /\ UNCHANGED frames_left

\* The client end of a game socket goes away.
GPeerDrop(g) ==
    /\ gtask[g].peer = "open"
    /\ gtask' = [gtask EXCEPT ![g].peer = "gone"]
    /\ ginbox' = [h \in DOMAIN ginbox |-> IF h = g THEN <<>> ELSE ginbox[h]]
    /\ UNCHANGED <<sessions, cleanup_tasks, start_log, frames_left>>
    /\ LobbyUnchanged

\* game_endpoint, lines 75-78: receive_json raises WebSocketDisconnect.
GDisconnect(g) ==
    /\ gtask[g].pc = "recv"
    /\ gtask[g].peer = "gone"
    /\ CommitGame(HandleDisconnect(St, g))
    /\ UNCHANGED frames_left

\* _delayed_cleanup, lines 168-170: the first step of the task enters the
\* try and suspends in the sleep.
CleanupStart(c) ==
    /\ gtask[c].pc = "created"
    /\ ~gtask[c].cancel
    /\ gtask' = [gtask EXCEPT ![c].pc = "sleep"]
    /\ UNCHANGED <<sessions, cleanup_tasks, start_log, ginbox, frames_left>>
    /\ LobbyUnchanged

\* _delayed_cleanup, lines 170-178: the sleep is over.
CleanupExpire(c) ==
    /\ gtask[c].pc = "sleep"
    /\ ~gtask[c].cancel
    /\ CommitGame(CleanupRun(St, c))
    /\ UNCHANGED frames_left

\* remove_session, lines 99-104: the await of the popped task is over (a
\* task that awaits itself is resumed with the cancellation, suppressed).
CleanupRemoved(c) ==
    /\ gtask[c].pc = "rm_wait"
    /\ gtask[c].wait = c \/ gtask[gtask[c].wait].pc = "done"
    /\ CommitGame(ClearAndFinish(St, c))
    /\ UNCHANGED frames_left

\* _delayed_cleanup, lines 179-182: CancelledError is raised in the sleep.
\* A task cancelled before its first step ends without entering the try:
\* its finally does not run.
CleanupCancelled(c) ==
    /\ gtask[c].pc \in {"created", "sleep"}
    /\ gtask[c].cancel
    /\ gtask' = [gtask EXCEPT ![c] = IdleGame("done", None)]
    /\ cleanup_tasks' = IF gtask[c].pc = "created" THEN cleanup_tasks
                        ELSE [cleanup_tasks EXCEPT ![gtask[c].sid] = None]
    /\ UNCHANGED <<sessions, start_log, ginbox, frames_left>>
    /\ LobbyUnchanged

\* The ids a client may put in a request: the members' and a stranger's.
RequestIds == PlayerIds \cup {"px", None}

\* Session 1 as try_matchmake has created it for two lobby players, who have
\* both been sent match_found and have left the lobby since.
InitGameWith(socks, frames, watched) ==
    /\ InitLobby({})
    /\ joins_left = 0
    /\ readies_left = 0
    /\ sessions = <<NewSession([id |-> "p1", name |-> <<"a">>], [id |-> "p2", name |-> IdPrefix(IdText("p2"))])>>
    /\ cleanup_tasks = <<None>>
    /\ start_log = <<0>>
    /\ gtask = [k \in GameTasks |->
                   IF k \in socks THEN IdleGame("init", "new")
                   ELSE IF k \in GameSockets THEN IdleGame("done", "closed")
                   ELSE IdleGame("unborn", None)]
    /\ ginbox = [g \in watched |-> <<>>]
    /\ frames_left = frames

\* Two game clients.
DuoSockets == {"g1", "g2"}

InitGame == InitGameWith(DuoSockets, MaxFrames, DuoSockets)

NextGame ==
    \/ \E g \in GameSockets, sid \in {0, 1}, pid \in RequestIds : GReject(g, sid, pid)
    \/ \E g \in GameSockets, sid \in {0, 1}, pid \in RequestIds : GConnect(g, sid, pid)
    \/ \E g \in GameSockets : GAccepted(g)
    \/ \E g \in GameSockets : GCleanupCancelled(g)
    \/ \E g \in GameSockets : GSent(g)
    \/ \E g \in GameSockets, state \in StateInputs : GStateUpdate(g, state)
    \/ \E g \in GameSockets, state \in StateInputs : GGameOver(g, state)
    \/ \E g \in GameSockets : GLeave(g)
    \/ \E g \in GameSockets : GPeerDrop(g)
    \/ \E g \in GameSockets : GDisconnect(g)
    \/ \E c \in CleanupTimers : CleanupStart(c)
    \/ \E c \in CleanupTimers : CleanupExpire(c)
    \/ \E c \in CleanupTimers : CleanupRemoved(c)
    \/ \E c \in CleanupTimers : CleanupCancelled(c)

SpecGame == InitGame /\ [][NextGame]_vars

(***************************************************************************)
(* The same two game clients on a fair event loop: a task that can run is  *)
(* run, and a timer whose sleep is over fires.  Nothing obliges a client   *)
(* to send a frame, to leave or to go away.  No client traffic is          *)
(* recorded.                                                               *)
(***************************************************************************)
InitGameFair == InitGameWith(DuoSockets, MaxFrames, {})

FairGame ==
    \A g \in DuoSockets :
        /\ WF_vars(GAccepted(g))
        /\ WF_vars(GCleanupCancelled(g))
        /\ WF_vars(GSent(g))
        /\ WF_vars(GDisconnect(g))
        /\ WF_vars(CleanupStart(CleanupOf[g]))
        /\ WF_vars(CleanupExpire(CleanupOf[g]))
        /\ WF_vars(CleanupRemoved(CleanupOf[g]))
        /\ WF_vars(CleanupCancelled(CleanupOf[g]))

SpecGameFair == InitGameFair /\ [][NextGame]_vars /\ FairGame

(***************************************************************************)
(* Two game clients whose only frames are state_update and leave.          *)
(***************************************************************************)
NextUpdate ==
    \/ \E g \in GameSockets, sid \in {0, 1}, pid \in RequestIds : GReject(g, sid, pid)
    \/ \E g \in GameSockets, sid \in {0, 1}, pid \in RequestIds : GConnect(g, sid, pid)
    \/ \E g \in GameSockets : GAccepted(g)
    \/ \E g \in GameSockets : GCleanupCancelled(g)
    \/ \E g \in GameSockets : GSent(g)
    \/ \E g \in GameSockets, state \in StateInputs : GStateUpdate(g, state)
    \/ \E g \in GameSockets : GLeave(g)
    \/ \E g \in GameSockets : GPeerDrop(g)
    \/ \E g \in GameSockets : GDisconnect(g)
    \/ \E c \in CleanupTimers : CleanupStart(c)
    \/ \E c \in CleanupTimers : CleanupExpire(c)
    \/ \E c \in CleanupTimers : CleanupRemoved(c)
    \/ \E c \in CleanupTimers : CleanupCancelled(c)

SpecUpdate == InitGame /\ [][NextUpdate]_vars

(***************************************************************************)
(* Three game sockets that connect, drop and come back; no frames but      *)
(* leave.                                                                  *)
(***************************************************************************)
TrioSockets == {"g1", "g2", "g3"}

InitRegame == InitGameWith(TrioSockets, 0, TrioSockets)

NextRegame ==
    \/ \E g \in GameSockets, sid \in {0, 1}, pid \in RequestIds : GReject(g, sid, pid)
    \/ \E g \in GameSockets, sid \in {0, 1}, pid \in RequestIds : GConnect(g, sid, pid)
    \/ \E g \in GameSockets : GAccepted(g)
    \/ \E g \in GameSockets : GCleanupCancelled(g)
    \/ \E g \in GameSockets : GSent(g)
    \/ \E g \in GameSockets : GLeave(g)
    \/ \E g \in GameSockets : GPeerDrop(g)
    \/ \E g \in GameSockets : GDisconnect(g)
    \/ \E c \in CleanupTimers : CleanupStart(c)
    \/ \E c \in CleanupTimers : CleanupExpire(c)
    \/ \E c \in CleanupTimers : CleanupRemoved(c)
    \/ \E c \in CleanupTimers : CleanupCancelled(c)

SpecRegame == InitRegame /\ [][NextRegame]_vars

(***************************************************************************)
(* One member of session 1 comes back again and again: four game sockets   *)
(* under the first member's id, with game_over frames; no client traffic   *)
(* is recorded.                                                            *)
(***************************************************************************)
MaxOver == 1            \* game_over frames over a run of SpecFinish

InitFinish == InitGameWith(GameSockets, MaxOver, {})

NextFinish ==
    \/ \E g \in GameSockets : GConnect(g, 1, UuidPool[1])
    \/ \E g \in GameSockets : GAccepted(g)
    \/ \E g \in GameSockets : GCleanupCancelled(g)
    \/ \E g \in GameSockets : GSent(g)
    \/ \E g \in GameSockets, state \in StateInputs : GGameOver(g, state)
    \/ \E g \in GameSockets : GLeave(g)
    \/ \E g \in GameSockets : GPeerDrop(g)
    \/ \E g \in GameSockets : GDisconnect(g)
    \/ \E c \in CleanupTimers : CleanupStart(c)
    \/ \E c \in CleanupTimers : CleanupExpire(c)
    \/ \E c \in CleanupTimers : CleanupRemoved(c)
    \/ \E c \in CleanupTimers : CleanupCancelled(c)

SpecFinish == InitFinish /\ [][NextFinish]_vars

(***************************************************************************)
(* Three game sockets of the two members that connect and send frames;     *)
(* nobody leaves.  The payload of a frame tells how many frames the server *)
(* had received before it.                                                 *)
(***************************************************************************)
FrameTags == <<"f1", "f2", "f3">>
MaxTagged == 2          \* state_update / game_over frames over a run of SpecRelay

FrameTag == FrameTags[MaxTagged - frames_left + 1]

\* What the client of g2 is sent is recorded.
InitRelay == InitGameWith(TrioSockets, MaxTagged, {"g2"})

NextRelay ==
    \/ \E g \in GameSockets, pid \in PlayerIds : GConnect(g, 1, pid)
    \/ \E g \in GameSockets : GAccepted(g)
    \/ \E g \in GameSockets : GSent(g)
    \/ \E g \in GameSockets : GStateUpdate(g, FrameTag)
    \/ \E g \in GameSockets : GGameOver(g, FrameTag)

SpecRelay == InitRelay /\ [][NextRelay]_vars

(***************************************************************************)
(* The same four sockets when every client ends with a leave frame.        *)
(***************************************************************************)
NextLeave ==
    \/ \E g \in GameSockets : GConnect(g, 1, UuidPool[1])
    \/ \E g \in GameSockets : GAccepted(g)
    \/ \E g \in GameSockets : GCleanupCancelled(g)
    \/ \E g \in GameSockets : GSent(g)
    \/ \E g \in GameSockets, state \in StateInputs : GGameOver(g, state)
    \/ \E g \in GameSockets : GLeave(g)
    \/ \E c \in CleanupTimers : CleanupStart(c)
    \/ \E c \in CleanupTimers : CleanupExpire(c)
    \/ \E c \in CleanupTimers : CleanupRemoved(c)
    \/ \E c \in CleanupTimers : CleanupCancelled(c)

SpecLeave == InitFinish /\ [][NextLeave]_vars

(***************************************************************************)
(* After a match: the two lobby clients stay connected and may rename      *)
(* themselves, while two game clients play session 1.                      *)
(***************************************************************************)
MaxRename == 1          \* join frames over a run of SpecSession
MaxRelay == 1           \* state_update / game_over frames over a run of SpecSession

RenameInputs == {<<"b">>}

Matched == <<[id |-> "p1", name |-> <<"a">>, ws |-> "s1", connected |-> TRUE],
             [id |-> "p2", name |-> <<"a">>, ws |-> "s2", connected |-> TRUE]>>

\* The state after s1 and s2 have joined as "a", both have sent set_ready
\* and try_matchmake has paired them and sent both match_found.
InitSession ==
    /\ lobby_module = "lobby_manager"
    /\ players = Matched
    /\ queue = <<>>
    /\ disconnect_tasks = [p \in PlayerIds |-> None]
    /\ ltask = [k \in LobbyTasks |->
                   IF k \in PairSockets
                   THEN [IdleTask("recv", "open") EXCEPT !.pid = IF k = "s1" THEN "p1" ELSE "p2"]
                   ELSE IF k \in LobbySockets THEN IdleTask("done", "closed")
                   ELSE IdleTask("unborn", None)]
    /\ minted = 2
    /\ mf_log = <<[sid |-> 1, to |-> "p1", opponent |-> "p2", ws |-> "s1"],
                  [sid |-> 1, to |-> "p2", opponent |-> "p1", ws |-> "s2"]>>
    /\ rebound = [p \in PlayerIds |-> None]
    /\ linbox = <<>>
    /\ bare = <<>>
    /\ joins_left = MaxRename
    /\ readies_left = 0
    /\ sessions = <<NewSession(Matched[1], Matched[2])>>
    /\ cleanup_tasks = <<None>>
    /\ start_log = <<0>>
    /\ gtask = [k \in GameTasks |->
                   IF k \in DuoSockets THEN IdleGame("init", "new")
                   ELSE IF k \in GameSockets THEN IdleGame("done", "closed")
                   ELSE IdleGame("unborn", None)]
    /\ ginbox = <<>>
    /\ frames_left = MaxRelay

NextSession ==
    \/ \E s \in LobbySockets, name \in RenameInputs, req \in KnownIds : LJoin(s, name, req)
    \/ \E s \in LobbySockets : LJoined(s)
    \/ \E k \in LobbyTasks : LBroadcastNext(k)
    \/ NextGame

SpecSession == InitSession /\ [][NextSession]_vars

(***************************************************************************)
(* Claims.                                                                 *)
(***************************************************************************)
QueueIds == SeqToSet(queue)
PlayerKeys == {players[i].id : i \in 1..Len(players)}

\* C1: every id in readyQueue is a key of players, in every reachable state
\* of the lobby registry.
C1_QueueWithinPlayers == QueueIds \subseteq PlayerKeys

PendingReconnectTimers(p) ==
    {t \in LobbyTimers : /\ ltask[t].pc \notin {"unborn", "done"}
                         /\ ltask[t].pid = p
                         /\ ~ltask[t].cancel}

\* C2: at any instant at most one reconnect timer per player id is pending
\* (armed, neither finished nor cancelled).
C2_OneReconnectTimer ==
    \A p \in PlayerIds : Cardinality(PendingReconnectTimers(p)) <= 1

\* The step is the expiry of the reconnect timer t: its sleep ends uncancelled.
GraceExpires(t) ==
    ltask[t].pc = "sleep" /\ ~ltask[t].cancel /\ ltask'[t].pc # "sleep"

\* The latest register_player of p re-bound the player to a websocket whose
\* handler still serves a connected client.
ReboundLive(p) ==
    /\ HasPlayer(players, p)
    /\ rebound[p] # None
    /\ ltask[rebound[p]].pid = p
    /\ ltask[rebound[p]].pc # "done"
    /\ ltask[rebound[p]].peer = "open"

\* C4: a player that register_player has re-bound to a socket is not removed
\* by the expiry of a reconnect timer: it is still in players after the step.
C4_ReboundSurvivesExpiry ==
    [][\A t \in LobbyTimers :
          GraceExpires(t) /\ ReboundLive(ltask[t].pid) => HasPlayer(players', ltask[t].pid)]_vars

NoDuplicates(q) == \A i, j \in 1..Len(q) : q[i] = q[j] => i = j

NewSessions == (Len(sessions) + 1)..Len(sessions')

\* C5: a step that creates sessions pairs two different players that were
\* both queued, takes both out of the queue, and uses no player twice; the
\* queue holds an id at most once, so an entry is consumed by one pairing.
C5_AtMostOnceMatching ==
    [][/\ NoDuplicates(queue')
       /\ \A i \in NewSessions :
             /\ Cardinality(MemberIds(sessions'[i])) = 2
             /\ MemberIds(sessions'[i]) \subseteq QueueIds
             /\ MemberIds(sessions'[i]) \cap SeqToSet(queue') = {}
             /\ \A j \in NewSessions :
                   i # j => MemberIds(sessions'[i]) \cap MemberIds(sessions'[j]) = {}]_vars

\* C5 witness: a session exists whose two members are out of the queue.
C5_Paired ==
    \E i \in 1..Len(sessions) :
        /\ Cardinality(MemberIds(sessions[i])) = 2
        /\ MemberIds(sessions[i]) \cap QueueIds = {}

\* C6: when match_found is handed to a websocket, the addressee and the
\* opponent are both absent from the queue and the session is in the registry.
C6_EmissionAfterDequeue ==
    [][Len(mf_log') > Len(mf_log) =>
          LET e == mf_log'[Len(mf_log')]
          IN /\ e.to \notin SeqToSet(queue')
             /\ e.opponent \notin SeqToSet(queue')
             /\ e.sid \in 1..Len(sessions') /\ sessions'[e.sid].inreg]_vars

PendingCleanupTimers(sid) ==
    {c \in CleanupTimers : /\ gtask[c].pc \notin {"unborn", "done"}
                           /\ gtask[c].sid = sid
                           /\ ~gtask[c].cancel}

\* C3: at any instant at most one cleanup timer per session id is pending
\* (armed, neither finished nor cancelled).
C3_OneCleanupTimer ==
    \A sid \in 1..Len(sessions) : Cardinality(PendingCleanupTimers(sid)) <= 1

\* C7: every session in the registry has exactly two distinct member ids,
\* and no step changes the members map of a session.
C7_MembersFixed ==
    [][/\ \A i \in 1..Len(sessions') :
             sessions'[i].inreg =>
                 /\ Len(sessions'[i].players) = 2
                 /\ Cardinality(MemberIds(sessions'[i])) = 2
       /\ \A i \in 1..Len(sessions) :
             /\ i \in 1..Len(sessions')
             /\ sessions'[i].players = sessions[i].players]_vars

\* C7 witness: a lobby player has a new name while both members are
\* connected to the session and a state has been relayed.
C7_RenamedWhilePlaying ==
    \E i \in 1..Len(sessions), j \in 1..Len(players) :
        /\ sessions[i].inreg
        /\ Len(sessions[i].connections) = 2
        /\ \E p \in DOMAIN sessions[i].last_states : sessions[i].last_states[p] # None
        /\ \E m \in 1..Len(sessions[i].players) :
              /\ sessions[i].players[m].id = players[j].id
              /\ sessions[i].players[m].name # players[j].name

ConnectionIds(sess) == {sess.connections[i].id : i \in 1..Len(sess.connections)}

\* C8: the ids with an entry in a session's connections are member ids,
\* each with one entry, so there are 0, 1 or 2 entries.
C8_ConnectionsWithinMembers ==
    \A i \in 1..Len(sessions) :
        /\ ConnectionIds(sessions[i]) \subseteq MemberIds(sessions[i])
        /\ Cardinality(ConnectionIds(sessions[i])) = Len(sessions[i].connections)
        /\ Len(sessions[i].connections) <= 2

\* C8 witness: both members are connected and a request has been refused.
C8_FullAndRefused ==
    /\ \E i \in 1..Len(sessions) : ConnectionIds(sessions[i]) = MemberIds(sessions[i])
    /\ \E g \in GameSockets : gtask[g].code = 1008

\* The handler g passes the count check of game_endpoint in this step.
CountsNow(g) ==
    gtask[g].pc = "send" /\ gtask[g].cont = "count" /\ gtask'[g].cont # "count"

\* The handler g has sent opponent_returned and goes on in this step.
ReturnsNow(g) ==
    /\ gtask[g].pc = "send" /\ gtask[g].cont = "private_start"
    /\ Len(gtask[g].targets) = 1
    /\ gtask'[g].cont # "private_start"

OtherSockets(sess, id) ==
    LET sel == SelectSeq(sess.connections, LAMBDA r : r.id # id)
    IN [i \in 1..Len(sel) |-> sel[i].ws]

\* C9: `start` is broadcast at most once per session; a handler that finds
\* both members connected broadcasts it to every connection and sets started
\* if started is false, and otherwise sends opponent_returned to the other
\* member only, followed by a start to its own socket only.
C9_StartOnce ==
    [][/\ \A i \in 1..Len(sessions) :
             /\ start_log'[i] <= 1
             /\ start_log'[i] # start_log[i] =>
                   /\ ~sessions[i].started /\ sessions'[i].started
                   /\ Len(sessions[i].connections) = 2
       /\ \A g \in GameSockets :
             CountsNow(g) /\ Len(sessions[gtask[g].sid].connections) = 2 =>
                 IF ~sessions[gtask[g].sid].started
                 THEN /\ start_log'[gtask[g].sid] = start_log[gtask[g].sid] + 1
                      /\ sessions'[gtask[g].sid].started
                      /\ gtask'[g].msg.type = "start"
                      /\ gtask'[g].targets = OtherSockets(sessions[gtask[g].sid], None)
                 ELSE /\ start_log'[gtask[g].sid] = start_log[gtask[g].sid]
                      /\ gtask'[g].msg.type = "opponent_returned"
                      /\ gtask'[g].targets = OtherSockets(sessions[gtask[g].sid], gtask[g].pid)
                      /\ gtask'[g].cont = "private_start"
       /\ \A g \in GameSockets :
             ReturnsNow(g) =>
                 /\ gtask'[g].msg.type = "start"
                 /\ gtask'[g].targets = <<g>>
                 /\ start_log' = start_log]_vars

\* C9 witness: after the one broadcast of start, a handler that found both
\* members connected has sent opponent_returned to the other member and is
\* sending a start to its own socket.
C9_PrivateStart ==
    \E g \in GameSockets :
        /\ gtask[g].pc = "send"
        /\ gtask[g].msg.type = "start"
        /\ gtask[g].targets = <<g>>
        /\ start_log[gtask[g].sid] = 1
        /\ \E h \in DOMAIN ginbox \ {g} :
              /\ ginbox[h] # <<>>
              /\ ginbox[h][Len(ginbox[h])] = Msg("opponent_returned", gtask[g].pid, None)

\* The step is the expiry of the cleanup timer c: its sleep ends uncancelled.
CleanupFires(c) ==
    gtask[c].pc = "sleep" /\ ~gtask[c].cancel /\ gtask'[c].pc # "sleep"

\* C10: a firing cleanup timer takes the session out of the registry if and
\* only if the session is in it and has no connection or is finished.
C10_CleanupIff ==
    [][\A c \in CleanupTimers :
          CleanupFires(c) =>
              LET sess == sessions[gtask[c].sid]
              IN sessions'[gtask[c].sid].inreg =
                    (sess.inreg /\ ~(Len(sess.connections) = 0 \/ sess.finished))]_vars

\* C10 witness: one timer has fired and left the session alone, as it had
\* a connection and was not finished; the session has been finished since,
\* and another timer has then fired and is taking it out of the registry.
C10_SparedThenDestroyed ==
    \E c, d \in CleanupTimers :
        /\ gtask[c].pc = "done" /\ gtask[c].cont = "skipped"
        /\ gtask[d].pc = "rm_wait"
        /\ sessions[gtask[d].sid].finished
        /\ ~sessions[gtask[d].sid].inreg

(***************************************************************************)
(* C11.  In a call of try_matchmake the pairs follow the queue order over  *)
(* the eligible ids (queued, in players and connected): the i-th session   *)
(* created pairs the (2i-1)-th eligible id with the 2i-th, an eligible id  *)
(* is left unpaired only when no eligible id queued after it is paired,    *)
(* and the ids left in the queue keep their relative order.                *)
(***************************************************************************)
\* The task k is about to enter try_matchmake: the broadcast_state of the
\* set_ready frame has no send and no eviction left.
MatchmakeRuns(k) ==
    /\ ltask[k].pc = "bcast"
    /\ ltask[k].cont = "match"
    /\ ltask[k].targets = <<>>
    /\ ltask[k].stale = <<>>
    /\ ltask'[k] # ltask[k]

IsEligible(id) == HasPlayer(players, id) /\ GetPlayer(players, id).connected

Eligible == SelectSeq(queue, IsEligible)

PairedIds == UNION {MemberIds(sessions'[sid]) : sid \in NewSessions}

C11_QueueOrderPairing ==
    [][\A k \in LobbySockets : MatchmakeRuns(k) =>
          /\ Len(sessions') = Len(sessions) + (Len(Eligible) \div 2)
          /\ \A i \in 1..(Len(Eligible) \div 2) :
                LET sess == sessions'[Len(sessions) + i]
                IN /\ Len(sess.players) = 2
                   /\ sess.players[1].id = Eligible[2 * i - 1]
                   /\ sess.players[2].id = Eligible[2 * i]
          /\ \A i, j \in 1..Len(queue) :
                i < j /\ IsEligible(queue[i]) /\ queue[j] \in PairedIds
                    => queue[i] \in PairedIds
          /\ queue' = SelectSeq(queue, LAMBDA id : id \notin PairedIds)]_vars

\* Two pairs were formed, all four members were notified, and an id that is
\* not eligible stayed in the queue.
C11_TwoPairsOneSkipped ==
    /\ Len(sessions) = 2
    /\ Len(mf_log) = 4
    /\ \E i \in 1..Len(queue) : ~IsEligible(queue[i])

(***************************************************************************)
(* C12.  set_ready is idempotent: applying set_ready(p, b) again to the    *)
(* queue it produced changes nothing, set_ready(p, true) on a queued p     *)
(* keeps the queue as it is (same position, no duplicate), and             *)
(* set_ready(p, false) on a p that is not queued changes nothing.          *)
(***************************************************************************)
\* The handler s has taken a set_ready frame and run set_ready, and is now
\* suspended in the first send of the broadcast that follows.
SetReadyApplied(s) ==
    /\ ltask[s].pc = "recv"
    /\ ltask'[s].pc = "bcast"
    /\ ltask'[s].cont = "match"

\* The flag of the frame shows in the result: p is queued after
\* set_ready(p, true) and is not after set_ready(p, false).
C12_SetReadyIdempotent ==
    [][\A s \in LobbySockets : SetReadyApplied(s) =>
          LET p == ltask[s].pid
          IN /\ SetReady(queue', p, InSeq(p, queue')) = queue'
             /\ InSeq(p, queue) = InSeq(p, queue') => queue' = queue
             /\ NoDuplicates(queue) => NoDuplicates(queue')]_vars

\* set_ready(p1, true) has just run on a queue that already held p1 ahead
\* of other ids: a first application would have put p1 last.
C12_ReadyAgainInPlace ==
    /\ ltask["s1"].pc = "bcast"
    /\ ltask["s1"].cont = "match"
    /\ sessions = <<>>
    /\ \E i \in 1..Len(queue) : queue[i] = "p1" /\ i < Len(queue)

(***************************************************************************)
(* C13.  When register_player returns from re-binding an id that was       *)
(* already in players, there is exactly one record for the id, its socket  *)
(* is the one of the call and it is connected, its name is the old one or  *)
(* the sanitized non-empty name of the frame, the queue is as it was, and  *)
(* no reconnect timer for the id is pending.                               *)
(***************************************************************************)
\* register_player returns to the handler s in this step, at once or after
\* the await of the timer it cancelled.
RegisterReturns(s) ==
    /\ ltask[s].pc \in {"recv", "reg_wait"}
    /\ ltask'[s].pc = "joined"

RecordsOf(ps, id) == {i \in 1..Len(ps) : ps[i].id = id}

SanitizedNames == {Sanitize(n) : n \in NameInputs} \ {<<>>}

C13_RebindPostcondition ==
    [][\A s \in LobbySockets :
          RegisterReturns(s) /\ rebound'[ltask'[s].pid] = s =>
              LET id == ltask'[s].pid
              IN /\ Cardinality(RecordsOf(players', id)) = 1
                 /\ GetPlayer(players', id).ws = s
                 /\ GetPlayer(players', id).connected
                 /\ ltask[s].pc = "recv" =>
                       /\ Len(players') = Len(players)
                       /\ GetPlayer(players', id).name \in
                              {GetPlayer(players, id).name} \cup SanitizedNames
                       /\ queue' = queue
                 /\ \A t \in LobbyTimers :
                       ltask'[t].pid = id /\ ~ltask'[t].cancel
                           => ltask'[t].pc \in {"unborn", "done"}]_vars

(***************************************************************************)
(* C14.  The opponent_state and opponent_game_over payloads that a         *)
(* connection is sent about one sender are in the order in which the       *)
(* server received that sender's frames: a payload never follows one that  *)
(* carries a later frame of the same sender.                               *)
(***************************************************************************)
TagRank(state) == CHOOSE n \in 1..Len(FrameTags) : FrameTags[n] = state

\* The positions of the inbox of w that hold a relayed payload about p.
RelayedAt(w, p) ==
    {i \in 1..Len(ginbox[w]) :
        /\ ginbox[w][i].type \in {"opponent_state", "opponent_game_over"}
        /\ ginbox[w][i].playerId = p}

C14_RelayKeepsOrder ==
    \A w \in DOMAIN ginbox : \A p \in PlayerIds : \A i, j \in RelayedAt(w, p) :
        i < j => TagRank(ginbox[w][i].state) <= TagRank(ginbox[w][j].state)

\* A connection was relayed two frames of one sender while its handler was
\* still greeting it, and was sent the sender's last state once more after.
C14_TwoRelayedOneResent ==
    \E w \in DOMAIN ginbox : \E p \in PlayerIds :
        /\ Cardinality(RelayedAt(w, p)) = 3
        /\ {ginbox[w][i].state : i \in RelayedAt(w, p)} = {"f1", "f2"}

(***************************************************************************)
(* C15.  forward_state on a session of the registry stores the state as    *)
(* the sender's last state and sends opponent_state, with the sender's id  *)
(* and that state, to the other member's connection if there is one;       *)
(* nothing goes to the sender or to anyone else and the other member's     *)
(* last state stays.  On a session that is no longer in the registry it    *)
(* changes nothing and sends nothing.                                      *)
(***************************************************************************)
\* The step takes a frame from a client.
FrameTaken == frames_left' = frames_left - 1

ForwardStateEffect(g, state) ==
    LET sid == gtask[g].sid
        p == gtask[g].pid
        sess == sessions[sid]
        others == {i \in 1..Len(sess.connections) : sess.connections[i].id # p}
        payload == [type |-> "opponent_state", playerId |-> p, state |-> state]
    IN IF ~sess.inreg
       THEN UNCHANGED <<sessions, cleanup_tasks, gtask, start_log, ginbox>>
       ELSE /\ sessions' = [sessions EXCEPT ![sid].last_states[p] = state]
            /\ UNCHANGED <<cleanup_tasks, start_log>>
            /\ IF others = {}
               THEN UNCHANGED <<gtask, ginbox>>
               ELSE \E i \in others :
                      LET ws == sess.connections[i].ws
                      IN /\ ws # g
                         /\ gtask'[g].pc = "send"
                         /\ gtask'[g].targets = <<ws>>
                         /\ gtask'[g].msg = payload
                         /\ \A h \in GameTasks \ {g} : gtask'[h] = gtask[h]
                         /\ \A w \in DOMAIN ginbox :
                               ginbox'[w] = IF w = ws /\ gtask[ws].peer = "open"
                                            THEN Append(ginbox[w], payload)
                                            ELSE ginbox[w]

C15_ForwardState ==
    [][FrameTaken => \E g \in GameSockets, state \in StateInputs :
                        GReceiving(g) /\ ForwardStateEffect(g, state)]_vars

\* The first member's update "x" is stored and was the last payload sent to
\* the second member's client, whose own last state is still unset.
C15_Relayed ==
    /\ sessions[1].last_states["p1"] = "x"
    /\ sessions[1].last_states["p2"] = None
    /\ \E w \in DOMAIN ginbox :
          /\ gtask[w].pid = "p2"
          /\ ginbox[w] # <<>>
          /\ ginbox[w][Len(ginbox[w])] =
                 [type |-> "opponent_state", playerId |-> "p1", state |-> "x"]

(***************************************************************************)
(* C16.  A game-socket request without playerId, for an unknown game id,   *)
(* or with a playerId that is not a member of the session is closed with   *)
(* code 1008 and never accepted; closing it sends no payload, adds no      *)
(* connection, cancels no cleanup timer and changes no session.            *)
(***************************************************************************)
\* The request on g is closed with 1008 in this step.
Refused(g) == gtask[g].code = 0 /\ gtask'[g].code = 1008

\* The request on g passes the checks in this step.
Admitted(g) == gtask[g].pc = "init" /\ gtask'[g].pc = "accept"

C16_RefusedUntouched ==
    [][\A g \in GameSockets :
          /\ Refused(g) =>
                /\ gtask[g].pc = "init"
                /\ gtask'[g].pc = "done"
                /\ \A k \in GameTasks \ {g} : gtask'[k] = gtask[k]
                /\ UNCHANGED <<sessions, cleanup_tasks, start_log, ginbox>>
          /\ Admitted(g) =>
                /\ gtask'[g].sid \in 1..Len(sessions)
                /\ sessions[gtask'[g].sid].inreg
                /\ gtask'[g].pid \in {sessions[gtask'[g].sid].players[i].id :
                                         i \in 1..Len(sessions[gtask'[g].sid].players)}]_vars

\* A request has been refused while the session was waiting for its cleanup
\* timer, which is still armed.
C16_RefusedTimerArmed ==
    \E g \in GameSockets :
        /\ gtask[g].code = 1008
        /\ sessions[1].inreg
        /\ cleanup_tasks[1] # None
        /\ gtask[cleanup_tasks[1]].pc = "sleep"
        /\ ~gtask[cleanup_tasks[1]].cancel

(***************************************************************************)
(* C17.  A leave frame that removes the last connection of a finished      *)
(* session.                                                                *)
(***************************************************************************)
\* The handler g takes a leave frame in this step and its connection was the
\* last one of its session, which is finished and in the registry.
LeaveEmptiesFinished(g) ==
    /\ GReceiving(g)
    /\ gtask'[g].pc = "done"
    /\ sessions[gtask[g].sid].inreg
    /\ sessions[gtask[g].sid].finished
    /\ sessions[gtask[g].sid].connections # <<>>
    /\ sessions'[gtask[g].sid].connections = <<>>

\* C17 as stated: the handling of such a leave removes the session from the
\* registry at once.
C17_LeaveDestroysAtOnce ==
    [][\A g \in GameSockets :
          LeaveEmptiesFinished(g) => ~sessions'[gtask[g].sid].inreg]_vars

\* C17 as amended: the handling of such a leave keeps the session in the
\* registry and leaves a cleanup timer registered for it, and a session
\* leaves the registry only in a step of a cleanup timer whose sleep is over.
C17_LeaveArmsTimer ==
    [][/\ \A g \in GameSockets :
             LeaveEmptiesFinished(g) =>
                 /\ sessions'[gtask[g].sid].inreg
                 /\ cleanup_tasks'[gtask[g].sid] # None
                 /\ gtask'[cleanup_tasks'[gtask[g].sid]].pc \in {"created", "sleep"}
        /\ \A sid \in 1..Len(sessions) :
             sessions[sid].inreg /\ ~sessions'[sid].inreg =>
                 \E c \in CleanupTimers :
                     /\ gtask[c].pc = "sleep"
                     /\ gtask[c].sid = sid
                     /\ gtask'[c].pc # "sleep"]_vars

\* Every client that came has left, the session is finished and empty, and
\* it is still in the registry with its cleanup timer asleep.
C17_FinishedEmptyWaiting ==
    /\ sessions[1].finished
    /\ sessions[1].inreg
    /\ sessions[1].connections = <<>>
    /\ cleanup_tasks[1] # None
    /\ gtask[cleanup_tasks[1]].pc = "sleep"
    /\ \E g \in GameSockets : gtask[g].pc = "done"

(***************************************************************************)
(* C18.  Once both members have been connected to the session and every    *)
(* game socket is gone for good, the session is eventually out of the      *)
(* registry with its connections and last states cleared and without a     *)
(* cleanup timer entry.                                                    *)
(***************************************************************************)
\* Both members were connected, no client is left and none is still to come.
BothGone ==
    /\ sessions[1].started
    /\ \A g \in GameSockets : gtask[g].pc # "init" /\ gtask[g].peer \in {"gone", "closed"}

Destroyed ==
    /\ ~sessions[1].inreg
    /\ sessions[1].connections = <<>>
    /\ \A p \in DOMAIN sessions[1].last_states : sessions[1].last_states[p] = None
    /\ cleanup_tasks[1] = None

C18_AbandonedIsDestroyed == BothGone ~> Destroyed

\* The session was played, both clients went away without a leave frame,
\* and it has been destroyed.
C18_PlayedAndDestroyed ==
    /\ BothGone
    /\ Destroyed
    /\ gtask["c1"].pc = "done" \/ gtask["c2"].pc = "done"

(***************************************************************************)
(* C19.  The socket of a joined player has dropped, no join re-adopts the  *)
(* id and the reconnect timer runs: once the timer has fired and removed   *)
(* the player, eventually the player is out of players, no reconnect       *)
(* timer entry for the id remains, and every remaining live socket has     *)
(* been sent a lobby_state without the player.                             *)
(***************************************************************************)
\* The reconnect timer of p has fired, has found p disconnected and removed
\* it, and is in its broadcast.
Fired(p) ==
    \E t \in LobbyTimers :
        /\ ltask[t].pid = p
        /\ ltask[t].pc = "bcast"
        /\ ltask[t].cont = "finally"
        /\ ~InSeq(p, ltask[t].payload)

\* The sockets of the players still in the table whose clients are there.
RemainingSockets ==
    {s \in LobbySockets :
        /\ ltask[s].peer = "open"
        /\ \E i \in 1..Len(players) : players[i].ws = s}

ToldWithout(s, p) == \E i \in 1..Len(linbox[s]) : ~InSeq(p, linbox[s][i])

RemovedAndTold(p) ==
    /\ ~HasPlayer(players, p)
    /\ disconnect_tasks[p] = None
    /\ \A s \in RemainingSockets : ToldWithout(s, p)

C19_FiredIsTold == \A p \in DropIds : Fired(p) ~> RemovedAndTold(p)

(***************************************************************************)
(* C20.  A call of try_matchmake that forms at least one pair performs     *)
(* exactly one lobby_state broadcast and sends match_found exactly once    *)
(* to each member of each pair it formed; a call that finds fewer than     *)
(* two eligible players changes no state, broadcasts nothing and sends     *)
(* nothing.  Stated over the runs of SpecEither, which hold one set_ready  *)
(* frame and so one call, made after the broadcast of the frame itself;    *)
(* every socket of the table is the one client's, so a broadcast is one    *)
(* lobby_state per connected player.  The lobby_state messages of a        *)
(* reconnect timer that expires meanwhile are its own broadcast, not the   *)
(* call's, and are left out of the count.                                  *)
(***************************************************************************)
LiveCount == Len(SnapshotSockets(players))

\* The sends the timer t has made in the broadcast that follows its expiry.
TimerSent(t) ==
    IF ltask[t].pc = "bcast" THEN LiveCount - Len(ltask[t].targets)
    ELSE IF ltask[t].pc = "done" THEN LiveCount
    ELSE 0

TimersSent == TimerSent("t1") + TimerSent("t2") + TimerSent("t3")

LobbyStatesSent == Len(linbox["s1"]) - TimersSent

Notices(sid, p) ==
    Cardinality({i \in 1..Len(mf_log) : mf_log[i].sid = sid /\ mf_log[i].to = p})

\* The handler is back in receive_json after the one frame.
CallOver == readies_left = 0 /\ ltask["s1"].pc = "recv"

\* The broadcasts of the frame: its own, and one more if pairs were formed.
BroadcastsDue == IF sessions = <<>> THEN 1 ELSE 2

OncePerCall ==
    /\ \A sid \in 1..Len(sessions) : \A p \in MemberIds(sessions[sid]) :
          /\ Notices(sid, p) <= 1
          /\ CallOver => Notices(sid, p) = 1
    /\ LobbyStatesSent <= LiveCount * BroadcastsDue
    /\ CallOver => LobbyStatesSent = LiveCount * BroadcastsDue

C20_MatchmakeOnce ==
    [][/\ OncePerCall'
       /\ \A k \in LobbySockets : MatchmakeRuns(k) /\ Len(Eligible) < 2 =>
              /\ UNCHANGED <<players, queue, disconnect_tasks, minted, mf_log, rebound, linbox,
                             bare, sessions, cleanup_tasks, start_log>>
              /\ ltask'[k].pc = "recv"]_vars

(***************************************************************************)
(* C21.  Every mutation of players, queue or disconnect_tasks is made by   *)
(* a task that holds the lobby mutex, on every path, the expiry, the       *)
(* cancellation and the exit of the timer task included: no table has      *)
(* been changed outside `async with self.lock`.                            *)
(***************************************************************************)
C21_MutationsUnderLock == \A table \in DOMAIN bare : ~bare[table]

(***************************************************************************)
(* C22.  A send of broadcast_state that fails because the peer is gone     *)
(* does not remove the player: a player whose lobby socket merely dropped  *)
(* leaves players only through the reconnect grace, that is, in the run    *)
(* of its reconnect timer that ends the sleep.  (No client of SpecDrop     *)
(* sends a leave frame.)                                                   *)
(***************************************************************************)
\* The step ends the sleep of a reconnect timer armed for p.
GraceEnds(p) ==
    \E t \in LobbyTimers :
        /\ ltask[t].pid = p
        /\ ltask[t].pc = "sleep"
        /\ ~ltask[t].cancel
        /\ ltask'[t].pc # "sleep"

C22_DroppedGoesThroughGrace ==
    [][\A p \in DropIds :
          HasPlayer(players, p) /\ ~HasPlayer(players', p) => GraceEnds(p)]_vars

(***************************************************************************)
(* C23.  handle_disconnect arms the cleanup timer if and only if the       *)
(* session has no connection left (and no timer is in the table yet);      *)
(* when one connection remains after the removal, that member is sent      *)
(* opponent_left and no timer is armed; and a session that holds a         *)
(* connection has no pending cleanup timer once the cancel_cleanup of the  *)
(* connecting handler is over.                                             *)
(***************************************************************************)
\* The step starts handle_disconnect of g on a session of the registry.
DisconnectStarts(g) ==
    /\ gtask[g].pc = "recv"
    /\ InRegistry(St, gtask[g].sid)
    /\ gtask'[g].pc = "done" \/ gtask'[g].cont = "count_zero"

\* The step runs the connected_count test of handle_disconnect of g.
CountRuns(g) ==
    /\ gtask'[g].pc = "done"
    /\ \/ DisconnectStarts(g)
       \/ gtask[g].pc = "send" /\ gtask[g].cont = "count_zero"

\* The step creates the _delayed_cleanup task of g.
Arms(g) == gtask[CleanupOf[g]].pc # "created" /\ gtask'[CleanupOf[g]].pc = "created"

PendingCleanup(sid) ==
    \E c \in CleanupTimers : gtask[c].sid = sid /\ gtask[c].pc \in {"created", "sleep"} /\ ~gtask[c].cancel

Cancelling(sid) == \E g \in GameSockets : gtask[g].sid = sid /\ gtask[g].pc = "cancel_wait"

ConnectedHasNoTimer ==
    \A sid \in 1..Len(sessions) :
        sessions[sid].connections # <<>> /\ ~Cancelling(sid) => ~PendingCleanup(sid)

C23_CleanupArmedIffEmpty ==
    [][/\ \A g \in GameSockets :
             LET sid == gtask[g].sid
             IN /\ CountRuns(g) =>
                     /\ Arms(g) <=> /\ sessions'[sid].connections = <<>>
                                    /\ cleanup_tasks[sid] = None
                     /\ ~Arms(g) => cleanup_tasks' = cleanup_tasks
                /\ DisconnectStarts(g) /\ Len(sessions'[sid].connections) = 1 =>
                     /\ gtask'[g].pc = "send"
                     /\ gtask'[g].msg = Msg("opponent_left", gtask[g].pid, None)
                     /\ gtask'[g].targets = <<sessions'[sid].connections[1].ws>>
                     /\ ~Arms(g)
       /\ ConnectedHasNoTimer']_vars

(***************************************************************************)
(* C24.  When the handler of an accepted game socket reaches the resume    *)
(* step and lastStates holds an entry for its member, it sends             *)
(* resume_state with the stored payload to its own socket, whatever the    *)
(* payload is, the empty object included.                                  *)
(***************************************************************************)
BeforeResume(t) == t.pc = "send" /\ t.cont \in {"count", "private_start", "own_state"}

PastResume(t) == t.pc = "recv" \/ (t.pc = "send" /\ t.cont \in {"opp_state", "recv"})

\* The step takes the handler of g through lines 45-47 of game_endpoint.
ResumeStep(g) == BeforeResume(gtask[g]) /\ PastResume(gtask'[g])

StoredState(g) == sessions[gtask[g].sid].last_states[gtask[g].pid]

SendsResume(g, state) ==
    /\ gtask'[g].pc = "send"
    /\ gtask'[g].cont = "opp_state"
    /\ gtask'[g].targets = <<g>>
    /\ gtask'[g].msg = Msg("resume_state", None, state)

C24_ResumeWhateverStored ==
    [][\A g \in GameSockets :
          ResumeStep(g) /\ StoredState(g) # None => SendsResume(g, StoredState(g))]_vars

(***************************************************************************)
(* C25.  Whenever the game endpoint records a socket in the connections    *)
(* of a session, that session is still in the registry: no accepted socket *)
(* is attached to, or sent `connected` by, a removed session.              *)
(***************************************************************************)
\* The step runs add_connection for the handler of g (game_endpoint, line 23).
RecordsConnection(g) == gtask[g].pc = "accept" /\ gtask'[g].pc # "accept"

C25_AttachedSessionIsRegistered ==
    [][\A g \in GameSockets :
          RecordsConnection(g) =>
              /\ InRegistry(St, gtask[g].sid)
              /\ sessions'[gtask[g].sid].inreg]_vars

(***************************************************************************)
(* C26.  When a member has opened a second game socket for the same        *)
(* session and playerId while an earlier one is still open, the disconnect *)
(* of the earlier socket keeps the entry of the newer socket, sends no     *)
(* opponent_left for that member and arms no cleanup timer.                *)
(***************************************************************************)
\* The entry of the member of g holds the still open socket h, recorded after g.
SupersededBy(g, h) ==
    /\ h # g
    /\ gtask[h].peer = "open"
    /\ gtask[h].sid = gtask[g].sid
    /\ \E i \in 1..Len(sessions[gtask[g].sid].connections) :
           sessions[gtask[g].sid].connections[i] = [id |-> gtask[g].pid, ws |-> h]

KeepsEntry(g, h) ==
    \E i \in 1..Len(sessions'[gtask[g].sid].connections) :
        sessions'[gtask[g].sid].connections[i] = [id |-> gtask[g].pid, ws |-> h]

C26_OldSocketLeavesNewAlone ==
    [][\A g, h \in GameSockets :
          DisconnectStarts(g) /\ SupersededBy(g, h) =>
              /\ KeepsEntry(g, h)
              /\ gtask'[g].msg.type # "opponent_left"
              /\ ~Arms(g)]_vars

(***************************************************************************)
(* C27.  When a player id has been re-adopted by a newer lobby socket      *)
(* while the older socket was still open, the drop of the older socket     *)
(* leaves the player's socket and connected flag alone, keeps the player   *)
(* in readyQueue and arms no reconnect timer; and a player whose current   *)
(* lobby socket is open is not removed by grace expiry.                    *)
(***************************************************************************)
\* The step is the disconnect of the lobby socket s (lobby_endpoint, finally).
LobbyDropStep(s) ==
    ltask[s].pc = "recv" /\ ltask[s].peer = "gone" /\ ltask'[s].pc = "done"

\* The record of the player of s is bound to the open socket n, not to s.
ReadoptedBy(s, n) ==
    /\ n # s
    /\ ltask[s].pid # None
    /\ HasPlayer(players, ltask[s].pid)
    /\ players[IdxOf(players, ltask[s].pid)].ws = n
    /\ ltask[n].peer = "open"
    /\ ltask[n].pc # "done"

CurrentSocketOpen(p) ==
    /\ HasPlayer(players, p)
    /\ \E n \in LobbySockets :
           /\ players[IdxOf(players, p)].ws = n
           /\ ltask[n].peer = "open"
           /\ ltask[n].pc # "done"

C27_OldLobbySocketLeavesNewAlone ==
    [][/\ \A s, n \in LobbySockets :
             LobbyDropStep(s) /\ ReadoptedBy(s, n) =>
                 LET id == ltask[s].pid
                 IN /\ HasPlayer(players', id)
                    /\ players'[IdxOf(players', id)].ws = n
                    /\ players'[IdxOf(players', id)].connected
                    /\ (\E i \in 1..Len(queue) : queue[i] = id) =>
                           (\E i \in 1..Len(queue') : queue'[i] = id)
                    /\ disconnect_tasks'[id] = disconnect_tasks[id]
       /\ \A t \in LobbyTimers :
             GraceExpires(t) /\ CurrentSocketOpen(ltask[t].pid) =>
                 HasPlayer(players', ltask[t].pid)]_vars

(***************************************************************************)
(* C28.  A session of the registry whose connections stay empty is         *)
(* eventually removed from the registry, also when no member ever opens a  *)
(* game socket to it: a session with zero connections does not stay in     *)
(* the registry for ever.                                                  *)
(***************************************************************************)
EmptyInRegistry(sid) == sessions[sid].inreg /\ sessions[sid].connections = <<>>

C28_EmptySessionIsRemoved ==
    \A sid \in {1} :
        (sid \in 1..Len(sessions) /\ EmptyInRegistry(sid)) ~>
            (~sessions[sid].inreg \/ sessions[sid].connections # <<>>)

(***************************************************************************)
(* C29.  When both members open their first game socket to a fresh         *)
(* session, whatever the interleaving of the two handlers, no socket       *)
(* receives `start` more than once and none receives opponent_returned:    *)
(* opponent_returned is only for a member whose connection had been        *)
(* removed before.                                                         *)
(***************************************************************************)
\* The two clients are the first sockets of the two members of session 1:
\* both are admitted and neither has ended, so no connection was removed.
FirstSockets ==
    /\ \A g \in DuoSockets : gtask[g].sid = 1 /\ gtask[g].pc \notin {"init", "accept", "done"}
    /\ gtask["g1"].pid # gtask["g2"].pid

Received(g, type) == Len(SelectSeq(ginbox[g], LAMBDA m : m.type = type))

C29_FirstConnectStartsOnce ==
    FirstSockets =>
        \A g \in DuoSockets :
            /\ Received(g, "start") <= 1
            /\ Received(g, "opponent_returned") = 0

====
